---- MODULE Spec2Model ----
(***************************************************************************)
(* Bracket simulator of matchcaller                                        *)
(* (src/matchcaller/simulator/bracket_simulator.py): the snapshot, the     *)
(* timeline built from it, the derived availability / state / organizer    *)
(* cap, and the simulation driver (start_simulation loop, jumps, the       *)
(* SimulatedTournamentAPI poll).                                           *)
(***************************************************************************)
EXTENDS Integers, Sequences, FiniteSets, TLC

(***************************************************************************)
(* Program constants                                                       *)
(***************************************************************************)
\* Python None of an optional integer field (timestamps are >= 0)
NoneT == -1
\* MatchState (IntEnum)
WAITING == 1
READY == 2
COMPLETED == 3
IN_PROGRESS == 6
\* build_timeline: start 1 hour before the first event
LeadIn == 3600
\* _apply_tournament_constraints: first 2 hours show everything
OpeningWindow == 7200
\* _determine_match_state: started less than 10 minutes ago = in progress
InProgressWindow == 600
\* _apply_tournament_constraints: min(4, max(2, n // 3))
MinConcurrent == 2
MaxConcurrent == 4
PoolDivisor == 3
\* the player tag of an undetermined slot
TBD == "TBD"

(***************************************************************************)
(* Generic helpers                                                         *)
(***************************************************************************)
Min2(a, b) == IF a <= b THEN a ELSE b
Max2(a, b) == IF a >= b THEN a ELSE b

Range(s) == {s[i] : i \in 1..Len(s)}

\* Python truthiness of an optional int: None and 0 are falsy
Truthy(x) == x # NoneT /\ x # 0

\* s[:k] of Python, k any integer (a negative k counts from the end)
PySlicePrefix(s, k) ==
  IF k >= 0 THEN SubSeq(s, 1, Min2(k, Len(s)))
  ELSE SubSeq(s, 1, Max2(0, Len(s) + k))

\* tuple comparison (a1, a2) < (b1, b2) of Python
KeyLess(a, b) == a[1] < b[1] \/ (a[1] = b[1] /\ a[2] < b[2])

\* list.sort(key=...): stable and ascending; key[i] is the key of s[i]
RECURSIVE InsertIdx(_, _, _)
InsertIdx(i, idxs, key) ==
  IF idxs = <<>> THEN <<i>>
  ELSE IF KeyLess(key[i], key[Head(idxs)]) THEN <<i>> \o idxs
  ELSE <<Head(idxs)>> \o InsertIdx(i, Tail(idxs), key)

RECURSIVE SortedIdx(_, _)
SortedIdx(n, key) ==
  IF n = 0 THEN <<>> ELSE InsertIdx(n, SortedIdx(n - 1, key), key)

StableSortBy(s, key) ==
  LET idx == SortedIdx(Len(s), key)
  IN [j \in 1..Len(s) |-> s[idx[j]]]

RECURSIVE Flatten(_)
Flatten(ss) == IF ss = <<>> THEN <<>> ELSE Head(ss) \o Flatten(Tail(ss))

(***************************************************************************)
(* Timeline Builder                                                        *)
(***************************************************************************)
\* (mutant: only the first player's tag is looked at)
HasTBDPlayer_FirstOnly(m) == m.tag1 = TBD

\* match["player1"]["tag"] == "TBD" or match["player2"]["tag"] == "TBD"
HasTBDPlayer(m) == m.tag1 = TBD \/ m.tag2 = TBD

\* the events one match contributes, in the order build_timeline appends them
MatchEvents(m) ==
  IF HasTBDPlayer(m) THEN <<>>
  ELSE (IF m.completed_at # NoneT
        THEN <<[timestamp |-> m.completed_at, type |-> "match_completed",
                match_id |-> m.id]>>
        ELSE <<>>)
       \o
       (IF m.started_at # NoneT
        THEN <<[timestamp |-> m.started_at, type |-> "match_started",
                match_id |-> m.id]>>
        ELSE <<>>)

\* (mutant: events of equal timestamp end up in reverse order of insertion)
build_timeline_TiesReversed(matches) ==
  LET events == Flatten([i \in 1..Len(matches) |-> MatchEvents(matches[i])])
  IN StableSortBy(events, [i \in 1..Len(events) |-> <<events[i].timestamp, 0 - i>>])

build_timeline(matches) ==
  LET events == Flatten([i \in 1..Len(matches) |-> MatchEvents(matches[i])])
  IN StableSortBy(events, [i \in 1..Len(events) |-> <<events[i].timestamp, 0>>])

\* (mutant: the simulation starts at the first event, without lead-in)
TimelineStart_NoLeadIn(events, old_start) ==
  IF events # <<>> THEN events[1].timestamp ELSE old_start

\* start_time after build_timeline: unchanged when there is no event
TimelineStart(events, old_start) ==
  IF events # <<>> THEN events[1].timestamp - LeadIn ELSE old_start

\* timeline_events[-1].timestamp
EndTime(events) == events[Len(events)].timestamp

(***************************************************************************)
(* State Determination                                                     *)
(***************************************************************************)
RelevantEvents(events, match_id, now) ==
  SelectSeq(events, LAMBDA e : e.match_id = match_id /\ e.timestamp <= now)

\* max(relevant_events, key=timestamp): the first event of the largest timestamp
LatestEvent(rel) ==
  LET i == CHOOSE i \in 1..Len(rel) :
             /\ \A j \in 1..Len(rel) : rel[j].timestamp <= rel[i].timestamp
             /\ \A j \in 1..(i - 1) : rel[j].timestamp < rel[i].timestamp
  IN rel[i]

\* (mutant: a started match is never reported as in progress)
_determine_match_state_NoWindow(events, match_id, now) ==
  LET rel == RelevantEvents(events, match_id, now)
  IN IF rel = <<>> THEN WAITING
     ELSE IF LatestEvent(rel).type \in {"match_started", "match_created"}
     THEN READY
     ELSE WAITING

\* (mutant: a started match is ready during the first 10 minutes and in
\* progress after them)
_determine_match_state_Swapped(events, match_id, now) ==
  LET rel == RelevantEvents(events, match_id, now)
  IN IF rel = <<>> THEN WAITING
     ELSE LET latest == LatestEvent(rel)
          IN IF latest.type = "match_started"
             THEN (IF now - latest.timestamp < InProgressWindow
                   THEN READY ELSE IN_PROGRESS)
             ELSE IF latest.type = "match_created" THEN READY
             ELSE WAITING

\* (mutant: a match started exactly 10 minutes ago is still in progress)
_determine_match_state_Inclusive(events, match_id, now) ==
  LET rel == RelevantEvents(events, match_id, now)
  IN IF rel = <<>> THEN WAITING
     ELSE LET latest == LatestEvent(rel)
          IN IF latest.type = "match_started"
             THEN (IF now - latest.timestamp <= InProgressWindow
                   THEN IN_PROGRESS ELSE READY)
             ELSE IF latest.type = "match_created" THEN READY
             ELSE WAITING

_determine_match_state(events, match_id, now) ==
  LET rel == RelevantEvents(events, match_id, now)
  IN IF rel = <<>> THEN WAITING
     ELSE LET latest == LatestEvent(rel)
          IN IF latest.type = "match_started"
             THEN (IF now - latest.timestamp < InProgressWindow
                   THEN IN_PROGRESS ELSE READY)
             ELSE IF latest.type = "match_created" THEN READY
             ELSE WAITING

(***************************************************************************)
(* Dependency & Availability Resolver                                      *)
(***************************************************************************)
\* (mutant: a completion is forgotten an hour after it happened)
CompletedIds_Recent(events, now) ==
  {events[i].match_id : i \in {j \in 1..Len(events) :
      /\ events[j].timestamp <= now
      /\ now - events[j].timestamp < 3600
      /\ events[j].type = "match_completed"}}

\* completed_matches: ids with a completed event at or before now
CompletedIds(events, now) ==
  {events[i].match_id : i \in {j \in 1..Len(events) :
      events[j].timestamp <= now /\ events[j].type = "match_completed"}}

\* sum(1 for mid in completed_matches for m in matches
\*     if m["id"] == mid and m.get("phase_name") == "Bracket")
BracketCompleted(matches, completed) ==
  Cardinality({i \in 1..Len(matches) :
      matches[i].id \in completed /\ matches[i].phase_name = "Bracket"})

TotalBracket(matches) ==
  Cardinality({i \in 1..Len(matches) : matches[i].phase_name = "Bracket"})

\* (mutant: "Top 8" is gated like "Top 24", at one half)
PhaseGateOpen_Top8AtHalf(m, matches, completed) ==
  IF m.phase_name \in {"Top 8", "Top 24"}
  THEN ~(2 * BracketCompleted(matches, completed) < TotalBracket(matches))
  ELSE TRUE

\* bracket_completed < total_bracket * 0.75 (resp. 0.5) fails
PhaseGateOpen(m, matches, completed) ==
  IF m.phase_name = "Top 8"
  THEN ~(4 * BracketCompleted(matches, completed) < 3 * TotalBracket(matches))
  ELSE IF m.phase_name = "Top 24"
  THEN ~(2 * BracketCompleted(matches, completed) < TotalBracket(matches))
  ELSE TRUE

\* one entrant source: unmet when it is of type "set", its typeId is truthy
\* and the set it names is not completed
SourceMet(src, completed) ==
  ~(src.type = "set" /\ Truthy(src.typeId) /\ src.typeId \notin completed)

\* int(source_set_id) raises ValueError: the source is of type "set" and its
\* typeId is a non-empty string that is no number
SourceRaises(src) == src.type = "set" /\ Truthy(src.typeId) /\ ~src.numeric

\* (mutant: the second slot's source is not checked)
PrerequisitesMet_FirstSlotOnly(m, matches, completed) ==
  /\ PhaseGateOpen(m, matches, completed)
  /\ SourceMet(m.src1, completed)

PrerequisitesMet(m, matches, completed) ==
  /\ PhaseGateOpen(m, matches, completed)
  /\ SourceMet(m.src1, completed)
  /\ SourceMet(m.src2, completed)

\* (mutant: a match is not available before its first event)
IsAvailable_StartedOnly(m, matches, events, now) ==
  LET completed == CompletedIds(events, now)
  IN /\ m.id \notin completed
     /\ ~HasTBDPlayer(m)
     /\ PrerequisitesMet(m, matches, completed)
     /\ \E k \in 1..Len(events) :
          events[k].match_id = m.id /\ events[k].timestamp <= now

\* the loop over tournament_data["matches"]: which records pass
IsAvailable(m, matches, events, now) ==
  LET completed == CompletedIds(events, now)
  IN /\ m.id \notin completed
     /\ ~HasTBDPlayer(m)
     /\ PrerequisitesMet(m, matches, completed)

\* the loop reaches a source check that raises: the record is not skipped
\* and prerequisites_met is still True when the check is made
MatchRaises(m, matches, events, now) ==
  LET completed == CompletedIds(events, now)
  IN /\ m.id \notin completed
     /\ ~HasTBDPlayer(m)
     /\ PhaseGateOpen(m, matches, completed)
     /\ \/ SourceRaises(m.src1)
        \/ (SourceMet(m.src1, completed) /\ SourceRaises(m.src2))

\* _get_available_matches raises instead of returning
AvailabilityRaises(matches, events, now) ==
  \E i \in 1..Len(matches) : MatchRaises(matches[i], matches, events, now)

\* updatedAt of the copy
DerivedUpdatedAt(m, state, events, now, start) ==
  IF m.phase_name = "Bracket" /\ m.round = 1 /\ state = WAITING
  THEN start
  ELSE LET hits == SelectSeq(events, LAMBDA e :
                     /\ e.match_id = m.id
                     /\ e.timestamp <= now
                     /\ \/ (state = READY
                            /\ e.type \in {"match_created", "match_ready"})
                        \/ (state = IN_PROGRESS /\ e.type = "match_started")
                        \/ (state = WAITING /\ e.type = "match_created"))
       IN IF hits # <<>>
          THEN hits[Len(hits)].timestamp     \* reversed(...): the last one
          ELSE IF Truthy(m.updated_at) THEN m.updated_at ELSE now

\* (mutant: startedAt is taken from the first started event, whether or not
\* it has happened)
DerivedStartedAt_AnyTime(m, events, now) ==
  LET hits == SelectSeq(events, LAMBDA e :
                /\ e.match_id = m.id
                /\ e.type = "match_started")
  IN IF hits # <<>> THEN hits[1].timestamp ELSE NoneT

\* startedAt of the copy: the first started event at or before now
DerivedStartedAt(m, events, now) ==
  LET hits == SelectSeq(events, LAMBDA e :
                /\ e.match_id = m.id
                /\ e.type = "match_started"
                /\ e.timestamp <= now)
  IN IF hits # <<>> THEN hits[1].timestamp ELSE NoneT

\* (mutant: the copy keeps the record's stored state when the match has no
\* event yet)
MatchView_KeepsStoredState(m, events, now, start) ==
  LET state == IF RelevantEvents(events, m.id, now) = <<>> THEN m.state
               ELSE _determine_match_state(events, m.id, now)
  IN [id |-> m.id, tag1 |-> m.tag1, tag2 |-> m.tag2,
      poolName |-> m.phase_group,
      state |-> state,
      updatedAt |-> DerivedUpdatedAt(m, state, events, now, start),
      startedAt |-> DerivedStartedAt(m, events, now)]

\* match.copy() with the derived fields set on the copy
MatchView(m, events, now, start) ==
  LET state == _determine_match_state(events, m.id, now)
  IN [id |-> m.id, tag1 |-> m.tag1, tag2 |-> m.tag2,
      poolName |-> m.phase_group,
      state |-> state,
      updatedAt |-> DerivedUpdatedAt(m, state, events, now, start),
      startedAt |-> DerivedStartedAt(m, events, now)]

_get_available_matches(matches, events, now, start) ==
  LET avail == SelectSeq(matches, LAMBDA m : IsAvailable(m, matches, events, now))
  IN [i \in 1..Len(avail) |-> MatchView(avail[i], events, now, start)]

(***************************************************************************)
(* Organizer-Constraint Filter                                             *)
(***************************************************************************)
\* match.get("poolName") or "Unknown Pool"
PoolKey(v) == IF v.poolName = "" THEN "Unknown Pool" ELSE v.poolName

\* the keys of the pools dict, in insertion order
RECURSIVE PoolOrder(_, _)
PoolOrder(views, seen) ==
  IF views = <<>> THEN <<>>
  ELSE IF PoolKey(Head(views)) \in seen THEN PoolOrder(Tail(views), seen)
  ELSE <<PoolKey(Head(views))>>
       \o PoolOrder(Tail(views), seen \cup {PoolKey(Head(views))})

\* (mutant: waiting matches rank before ready ones)
StatePriority_WaitingFirst(state) ==
  IF state = IN_PROGRESS THEN 0
  ELSE IF state = WAITING THEN 1
  ELSE IF state = READY THEN 2
  ELSE 3

StatePriority(state) ==
  IF state = IN_PROGRESS THEN 0
  ELSE IF state = READY THEN 1
  ELSE IF state = WAITING THEN 2
  ELSE 3

match_priority(v) ==
  IF v.tag1 = "" \/ v.tag2 = "" THEN <<3, 0>>
  ELSE <<StatePriority(v.state), IF Truthy(v.updatedAt) THEN v.updatedAt ELSE 0>>

\* (mutant: no lower bound of two concurrent matches)
max_concurrent_NoFloor(n) == Min2(MaxConcurrent, n \div PoolDivisor)

\* min(4, max(2, len(pool_matches) // 3))
max_concurrent(n) == Min2(MaxConcurrent, Max2(MinConcurrent, n \div PoolDivisor))

\* remaining_slots = max_concurrent - len(in_progress)
remaining_slots(n, n_in_progress) == max_concurrent(n) - n_in_progress

\* (mutant: past the opening window the cap cuts the whole sorted pool, the
\* matches in progress included)
PoolVisible_CapsAll(pool_matches, is_tournament_start) ==
  LET sorted == StableSortBy(pool_matches,
                   [i \in 1..Len(pool_matches) |-> match_priority(pool_matches[i])])
  IN IF is_tournament_start THEN sorted
     ELSE PySlicePrefix(sorted, max_concurrent(Len(sorted)))

\* what one pool contributes to realistic_matches
PoolVisible(pool_matches, is_tournament_start) ==
  LET sorted == StableSortBy(pool_matches,
                   [i \in 1..Len(pool_matches) |-> match_priority(pool_matches[i])])
      in_progress == SelectSeq(sorted, LAMBDA v : v.state = IN_PROGRESS)
      ready_waiting == SelectSeq(sorted, LAMBDA v : v.state \in {WAITING, READY})
  IN in_progress \o
     (IF is_tournament_start THEN ready_waiting
      ELSE PySlicePrefix(ready_waiting,
                         remaining_slots(Len(sorted), Len(in_progress))))

\* (mutant: the opening window ends just before start_time + 7200)
is_tournament_start_Exclusive(now, start) == now < start + OpeningWindow

is_tournament_start(now, start) == now <= start + OpeningWindow

_apply_tournament_constraints(views, now, start) ==
  IF views = <<>> THEN views
  ELSE LET order == PoolOrder(views, {})
       IN Flatten([k \in 1..Len(order) |->
             PoolVisible(SelectSeq(views, LAMBDA v : PoolKey(v) = order[k]),
                         is_tournament_start(now, start))])

(***************************************************************************)
(* get_current_state                                                       *)
(***************************************************************************)
\* match["_simulation_context"] = {current_time, start_time, is_simulation}
\* (the attribute _simulation_context is ctx_current_time, ctx_start_time; the
\* declared field simulation_context is not assigned and keeps its default None)
WithContext(v, now, start) ==
  [id |-> v.id, tag1 |-> v.tag1, tag2 |-> v.tag2, poolName |-> v.poolName,
   state |-> v.state, updatedAt |-> v.updatedAt, startedAt |-> v.startedAt,
   ctx_current_time |-> now, ctx_start_time |-> start,
   simulation_context |-> NoneT]

\* MatchRow.__init__: the fields of the display row that time_since_ready reads
MatchRow(set_data) ==
  [id |-> set_data.id,
   state |-> set_data.state,
   updated_at |-> IF Truthy(set_data.updatedAt) THEN set_data.updatedAt ELSE 0,
   started_at |-> IF Truthy(set_data.startedAt) THEN set_data.startedAt ELSE NoneT,
   simulation_context |-> set_data.simulation_context]

\* MatchRow.time_since_ready: whether "now" is taken from the simulation
\* context (otherwise it is int(time.time()))
UsesSimulatedTime(row) == Truthy(row.simulation_context)

NoTournamentState == [event_name |-> "No Tournament", sets |-> <<>>]

\* the call raised ValueError and returned nothing
RaisedValueError == [event_name |-> "ValueError", sets |-> <<>>]

get_current_state(td, events, now, start) ==
  IF ~td.loaded THEN NoTournamentState
  ELSE IF AvailabilityRaises(td.matches, events, now) THEN RaisedValueError
  ELSE LET available == _get_available_matches(td.matches, events, now, start)
           realistic == _apply_tournament_constraints(available, now, start)
       IN [event_name |-> "Event",
           sets |-> [i \in 1..Len(realistic) |-> WithContext(realistic[i], now, start)]]

(***************************************************************************)
(* Clock: progress and jumps                                               *)
(***************************************************************************)
\* (mutant: the advance is lost)
AdvanceSeconds_None(speed) == 0

\* int(real_seconds * speed_multiplier), speed_multiplier = speed[1] / speed[2] > 0
AdvanceSeconds(speed) == speed[1] \div speed[2]

\* max(start_time, min(timestamp, timeline_events[-1].timestamp))
JumpTarget(t, events, start) == Max2(start, Min2(t, EndTime(events)))

\* (mutant: the target is rounded up)
ProgressTarget_RoundedUp(p, events, start) ==
  LET q == IF p[1] < 0 THEN <<0, 1>> ELSE IF p[1] > p[2] THEN <<1, 1>> ELSE p
  IN start + ((EndTime(events) - start) * q[1] + q[2] - 1) \div q[2]

\* int(start_time + (end_time - start_time) * max(0.0, min(1.0, progress))),
\* progress = p[1] / p[2] with p[2] a power of two (exact in binary floating point)
ProgressTarget(p, events, start) ==
  LET q == IF p[1] < 0 THEN <<0, 1>> ELSE IF p[1] > p[2] THEN <<1, 1>> ELSE p
  IN start + ((EndTime(events) - start) * q[1]) \div q[2]

\* (mutant: the quotient is returned unclamped)
ProgressValue_Unclamped(now, events, start) ==
  [num |-> now - start, den |-> EndTime(events) - start]

\* min(1.0, max(0.0, (current_time - start_time) / (end_time - start_time))),
\* kept as the fraction num / den
ProgressValue(now, events, start) ==
  LET den == EndTime(events) - start
      num == now - start
  IN IF num < 0 THEN [num |-> 0, den |-> den]
     ELSE IF num > den THEN [num |-> den, den |-> den]
     ELSE [num |-> num, den |-> den]

\* get_simulation_progress raised (its get_current_state call did)
RaisedProgress == [num |-> 0, den |-> 0, current_time |-> 0, start_time |-> 0,
                   end_time |-> 0, active_matches |-> NoneT]

get_simulation_progress(td, events, now, start) ==
  IF events = <<>>
  THEN [num |-> 0, den |-> 1, current_time |-> 0, start_time |-> 0,
        end_time |-> 0, active_matches |-> 0]
  ELSE IF get_current_state(td, events, now, start) = RaisedValueError
  THEN RaisedProgress
  ELSE LET pr == ProgressValue(now, events, start)
       IN [num |-> pr.num, den |-> pr.den, current_time |-> now,
           start_time |-> start, end_time |-> EndTime(events),
           active_matches |-> Len(get_current_state(td, events, now, start).sets)]

(***************************************************************************)
(* State                                                                   *)
(***************************************************************************)
VARIABLES
  tournament_data,   \* [loaded, matches]: None, or the snapshot's match records
  timeline_events,   \* list of TimelineEvent
  current_time,
  start_time,
  is_running,
  speed_multiplier,  \* <<numerator, denominator>>
  api_created,       \* a SimulatedTournamentAPI has been constructed on the simulator
  pc,                \* start_simulation: "idle", "callback", "sleep", "done"
  callback,          \* start_simulation's argument: TRUE when a callback was given
  last_state,        \* start_simulation's local
  current_state,     \* start_simulation's local
  eq_ctx,            \* whether the model classes' __eq__ compares the
                     \* _simulation_context attribute (it is no declared field)
  lastOp,            \* the operation that ran last
  lastJump,          \* the operation that set current_time last, and its argument
  result,            \* the TournamentState returned by the last operation
  progress,          \* the SimulationProgress returned by the last operation
  tick_state,        \* the state computed by the loop's latest iteration
  prev_tick,         \* ... and by the iteration before it
  cb_fired,          \* whether the latest iteration invoked the callback
  stop_pending,      \* stop_simulation was called since the loop last suspended
  clock_set,         \* current_time was set by the driver since the load
  loaded0,           \* the match records as load_tournament read them
  file_read,         \* what the last load_tournament found in the snapshot file
  app,               \* the display program: its arguments, what main() made
                     \* of them, what TournamentAPI.fetch_sets returned
  remembered         \* one earlier get_current_state: the time it was called at,
                     \* the state it returned, the clock's last move then,
                     \* whether the snapshot was loaded

sim_vars == <<tournament_data, timeline_events, current_time, start_time,
              is_running, speed_multiplier, api_created>>
loop_vars == <<pc, callback, last_state, current_state>>
obs_vars == <<lastOp, lastJump, result, progress, tick_state, prev_tick,
              cb_fired, stop_pending, clock_set, loaded0, file_read, remembered>>
vars == <<sim_vars, loop_vars, eq_ctx, obs_vars, app>>

\* Python None where a TournamentState is expected
NoState == [event_name |-> "None", sets |-> <<>>]
NoProgress == [num |-> 0, den |-> 0, current_time |-> 0, start_time |-> 0,
               end_time |-> 0, active_matches |-> 0]
\* no snapshot file was read yet
NoFile == [readable |-> TRUE, missing |-> {}]
NoMemory == [at |-> NoneT, state |-> NoState, jump |-> <<"none", 0>>,
             loaded |-> FALSE]

StripContext(st) ==
  [event_name |-> st.event_name,
   sets |-> [i \in 1..Len(st.sets) |->
              [st.sets[i] EXCEPT !.ctx_current_time = 0, !.ctx_start_time = 0]]]

\* current_state != last_state
StateDiffers(a, b, with_ctx) ==
  IF with_ctx THEN a # b ELSE StripContext(a) # StripContext(b)

\* (mutant: the derived state and updatedAt are written to the snapshot's
\* records, not to copies)
StoreAfterQuery_InPlace(td, views) ==
  [td EXCEPT !.matches =
     [i \in 1..Len(td.matches) |->
        IF \E k \in 1..Len(views) : views[k].id = td.matches[i].id
        THEN LET v == views[CHOOSE k \in 1..Len(views) :
                               views[k].id = td.matches[i].id]
             IN [td.matches[i] EXCEPT !.state = v.state,
                                      !.updated_at = v.updatedAt]
        ELSE td.matches[i]]]

\* The records of the snapshot after a query: the derived fields are written to
\* match.copy(), so the snapshot's own records keep their values
StoreAfterQuery(td, views) == td

\* BracketSimulator.__init__, and the observers' initial values
InitSimulator(speeds, eqs) ==
  /\ tournament_data = [loaded |-> FALSE, matches |-> <<>>]
  /\ timeline_events = <<>>
  /\ current_time = 0
  /\ start_time = 0
  /\ is_running = FALSE
  /\ speed_multiplier \in speeds
  /\ api_created = FALSE
  /\ pc = "idle"
  /\ callback = FALSE
  /\ last_state = NoState
  /\ current_state = NoState
  /\ eq_ctx \in eqs
  /\ lastOp = "init"
  /\ lastJump = <<"none", 0>>
  /\ result = NoState
  /\ progress = NoProgress
  /\ tick_state = NoState
  /\ prev_tick = NoState
  /\ cb_fired = FALSE
  /\ stop_pending = FALSE
  /\ clock_set = FALSE
  /\ loaded0 = <<>>
  /\ file_read = NoFile
  /\ remembered = NoMemory

\* Python None where a str is expected
NoneStr == "<None>"

\* last_update: "" (stamp "none"), "Loading...", a wall-clock time, or
\* "Error at" a wall-clock time
Stamp(kind, wall) == [stamp |-> kind, at |-> wall]

\* TournamentDisplay.__init__ and the reactive defaults; title is the pair
\* (tournament_name, event_name) the header shows as "<a> - <b>"
NoDisplay == [mounted |-> FALSE, running |-> TRUE, outcome |-> "none",
              event_name |-> "Loading...",
              title |-> <<"Loading Tournament...", "">>,
              matches |-> <<>>, total_sets |-> 0, ready_sets |-> 0,
              in_progress_sets |-> 0, last_update |-> Stamp("none", 0)]

\* the display program was not started
NoApp == [stage |-> "none", token |-> NoneStr, event |-> NoneStr,
          slug |-> NoneStr, demo |-> FALSE, find_active |-> FALSE,
          found |-> NoneStr, api_token |-> NoneStr, event_id |-> NoneStr,
          event_slug |-> NoneStr, lookup |-> NoneStr, http |-> "none",
          fetched |-> "none", ui |-> NoDisplay]

Init(speeds, eqs) ==
  /\ app = NoApp
  /\ InitSimulator(speeds, eqs)

\* what the caller of an operation sees: its name and what it returned
Returns(op, st, pr) ==
  /\ lastOp' = op
  /\ result' = st
  /\ progress' = pr

\* the loop is not between two suspension points: another task may run
Suspended == pc \in {"idle", "callback", "sleep", "done"}

(***************************************************************************)
(* load_tournament                                                         *)
(***************************************************************************)
\* the fields pydantic requires of a match (MatchData) and of the file
\* (TournamentData)
RequiredFields == {"id", "player1", "player2", "state", "metadata", "matches",
                   "duration_minutes"}

\* (mutant: a file with fields missing is accepted)
Validates_Lenient(input) == input.readable

\* json.loads and TournamentData(**raw_data) raise nothing: the file is
\* readable JSON and no required field is missing
Validates(input) == input.readable /\ input.missing \cap RequiredFields = {}

\* the value load_tournament returns
ReturnedBool(b) == [event_name |-> IF b THEN "True" ELSE "False", sets |-> <<>>]

\* input: [readable, missing, matches], the content of the snapshot file
load_tournament(inputs) ==
  /\ ~tournament_data.loaded
  /\ pc = "idle"
  /\ \E input \in inputs :
       /\ file_read' = [readable |-> input.readable, missing |-> input.missing]
       /\ IF Validates(input)
          THEN LET events == build_timeline(input.matches)
               IN /\ tournament_data' = [loaded |-> TRUE, matches |-> input.matches]
                  /\ timeline_events' = events
                  /\ start_time' = TimelineStart(events, start_time)
                  /\ loaded0' = input.matches
                  /\ Returns("load_tournament", ReturnedBool(TRUE), NoProgress)
          ELSE \* except Exception: return False
               /\ Returns("load_tournament", ReturnedBool(FALSE), NoProgress)
               /\ UNCHANGED <<tournament_data, timeline_events, start_time,
                              loaded0>>
  /\ UNCHANGED <<current_time, is_running, speed_multiplier, api_created,
                 loop_vars, eq_ctx, lastJump, tick_state, prev_tick, cb_fired,
                 stop_pending, clock_set, app, remembered>>

(***************************************************************************)
(* Queries                                                                 *)
(***************************************************************************)
\* get_current_state() called by a task other than the loop;
\* keep: the caller holds on to this result
GetCurrentState(keeps) ==
  /\ Suspended
  /\ LET st == get_current_state(tournament_data, timeline_events,
                                 current_time, start_time)
     IN /\ Returns("get_current_state", st, NoProgress)
        /\ tournament_data' = StoreAfterQuery(tournament_data, st.sets)
        /\ \E keep \in keeps :
             remembered' = IF keep
                           THEN [at |-> current_time, state |-> st,
                                 jump |-> lastJump,
                                 loaded |-> tournament_data.loaded]
                           ELSE remembered
  /\ UNCHANGED <<timeline_events, current_time, start_time, is_running,
                 speed_multiplier, api_created, loop_vars, eq_ctx, lastJump,
                 tick_state, prev_tick, cb_fired, stop_pending, clock_set,
                 loaded0, file_read, app>>

GetSimulationProgress ==
  /\ Suspended
  /\ LET pr == get_simulation_progress(tournament_data, timeline_events,
                                       current_time, start_time)
         st == get_current_state(tournament_data, timeline_events,
                                 current_time, start_time)
     IN /\ Returns("get_simulation_progress", NoState, pr)
        /\ tournament_data' = IF timeline_events = <<>> THEN tournament_data
                              ELSE StoreAfterQuery(tournament_data, st.sets)
  /\ UNCHANGED <<timeline_events, current_time, start_time, is_running,
                 speed_multiplier, api_created, loop_vars, eq_ctx, lastJump,
                 tick_state, prev_tick, cb_fired, stop_pending, clock_set,
                 loaded0, file_read, app, remembered>>

(***************************************************************************)
(* Jumps                                                                   *)
(***************************************************************************)
\* jump_to_time(t); with an empty timeline timeline_events[-1] raises
JumpToTime(targets) ==
  /\ Suspended
  /\ timeline_events # <<>>
  /\ \E t \in targets :
       /\ current_time' = JumpTarget(t, timeline_events, start_time)
       /\ lastJump' = <<"jump_to_time", t>>
  /\ clock_set' = TRUE
  /\ Returns("jump_to_time", NoState, NoProgress)
  /\ UNCHANGED <<tournament_data, timeline_events, start_time, is_running,
                 speed_multiplier, api_created, loop_vars, eq_ctx, tick_state,
                 prev_tick, cb_fired, stop_pending, loaded0, file_read, app, remembered>>

JumpToProgress(fractions) ==
  /\ Suspended
  /\ \E p \in fractions :
       IF timeline_events = <<>>
       THEN UNCHANGED <<current_time, clock_set, lastJump>>
       ELSE /\ current_time' =
                 JumpTarget(ProgressTarget(p, timeline_events, start_time),
                            timeline_events, start_time)
            /\ clock_set' = TRUE
            /\ lastJump' = <<"jump_to_progress", p>>
  /\ Returns("jump_to_progress", NoState, NoProgress)
  /\ UNCHANGED <<tournament_data, timeline_events, start_time, is_running,
                 speed_multiplier, api_created, loop_vars, eq_ctx, tick_state,
                 prev_tick, cb_fired, stop_pending, loaded0, file_read, app, remembered>>

(***************************************************************************)
(* SimulatedTournamentAPI                                                  *)
(***************************************************************************)
\* __init__: builds the timeline if it is empty, rewinds the clock
SimulatedTournamentAPI_init ==
  /\ Suspended
  /\ ~api_created
  /\ api_created' = TRUE
  /\ LET events == IF tournament_data.loaded /\ timeline_events = <<>>
                   THEN build_timeline(tournament_data.matches)
                   ELSE timeline_events
         start == IF tournament_data.loaded /\ timeline_events = <<>>
                  THEN TimelineStart(events, start_time)
                  ELSE start_time
     IN /\ timeline_events' = events
        /\ start_time' = start
        /\ IF tournament_data.loaded /\ events # <<>>
           THEN /\ current_time' = start
                /\ clock_set' = TRUE
                /\ lastJump' = <<"rewind", 0>>
           ELSE UNCHANGED <<current_time, clock_set, lastJump>>
  /\ Returns("SimulatedTournamentAPI", NoState, NoProgress)
  /\ UNCHANGED <<tournament_data, is_running, speed_multiplier, loop_vars,
                 eq_ctx, tick_state, prev_tick, cb_fired,
                 stop_pending, loaded0, file_read, app, remembered>>

\* current_time += int(1 * speed_multiplier), then "don't go past the end";
\* with an empty timeline the clock is left alone
PolledTime(now, events, speed) ==
  IF events = <<>> THEN now
  ELSE LET advanced == now + AdvanceSeconds(speed)
       IN IF advanced > EndTime(events) THEN EndTime(events) ELSE advanced

\* fetch_sets: advance, clamp to the end, return the state
SimulatedTournamentAPI_fetch_sets ==
  /\ Suspended
  /\ api_created
  /\ IF ~tournament_data.loaded
     THEN /\ Returns("fetch_sets",
                     [event_name |-> "Simulation Error", sets |-> <<>>],
                     NoProgress)
          /\ UNCHANGED <<current_time, tournament_data, lastJump>>
     ELSE LET now == PolledTime(current_time, timeline_events, speed_multiplier)
              st == get_current_state(tournament_data, timeline_events,
                                      now, start_time)
          IN /\ current_time' = now
             /\ lastJump' = <<"advance", 0>>
             /\ Returns("fetch_sets", st, NoProgress)
             /\ tournament_data' = StoreAfterQuery(tournament_data, st.sets)
  /\ UNCHANGED <<timeline_events, start_time, is_running, speed_multiplier,
                 api_created, loop_vars, eq_ctx, tick_state,
                 prev_tick, cb_fired, stop_pending, clock_set, loaded0, file_read,
                 remembered>>

\* fetch_sets called by a task that is not the display
fetch_sets ==
  /\ SimulatedTournamentAPI_fetch_sets
  /\ UNCHANGED app

(***************************************************************************)
(* Simulation Driver: start_simulation / stop_simulation                   *)
(***************************************************************************)
\* (mutant: last_state is never assigned)
RememberState_Never(st, last) == last

\* last_state = current_state (the assignment after the awaited callback)
RememberState(st, last) == st

\* (mutant: the loop does not look at the stop flag)
LoopCondition_IgnoresFlag(running, now, events) == now <= EndTime(events)

\* while self.is_running and self.current_time <= self.timeline_events[-1].timestamp
LoopCondition(running, now, events) == running /\ now <= EndTime(events)

\* From the loop condition to the next suspension point, entered with
\* current_time = now, is_running = running, last_state = last; prev is the
\* state of the iteration before (for the observer).
LoopIteration(now, running, last, prev, has_callback) ==
  IF /\ LoopCondition(running, now, timeline_events)
     /\ get_current_state(tournament_data, timeline_events, now, start_time)
          = RaisedValueError
  THEN \* the exception leaves start_simulation: line 209 is not reached
       /\ pc' = "done"
       /\ is_running' = running
       /\ current_time' = now
       /\ last_state' = last
       /\ lastOp' = "loop_raised"
       /\ UNCHANGED <<tournament_data, current_state, tick_state, prev_tick,
                      cb_fired, lastJump>>
  ELSE IF LoopCondition(running, now, timeline_events)
  THEN LET st == get_current_state(tournament_data, timeline_events,
                                   now, start_time)
           changed == StateDiffers(st, last, eq_ctx)
       IN /\ tournament_data' = StoreAfterQuery(tournament_data, st.sets)
          /\ current_state' = st
          /\ tick_state' = st
          /\ prev_tick' = prev
          /\ is_running' = running
          /\ lastOp' = "tick"
          /\ lastJump' = <<"advance", 0>>
          /\ IF changed /\ has_callback
             THEN \* await callback(current_state)
                  /\ pc' = "callback"
                  /\ cb_fired' = TRUE
                  /\ last_state' = last
                  /\ current_time' = now
             ELSE \* advance, then await asyncio.sleep(real_seconds)
                  /\ pc' = "sleep"
                  /\ cb_fired' = FALSE
                  /\ last_state' = IF changed THEN RememberState(st, last) ELSE last
                  /\ current_time' = now + AdvanceSeconds(speed_multiplier)
  ELSE /\ pc' = "done"
       /\ is_running' = FALSE
       /\ current_time' = now
       /\ last_state' = last
       /\ lastOp' = "loop_exit"
       /\ UNCHANGED <<tournament_data, current_state, tick_state, prev_tick,
                      cb_fired, lastJump>>

\* (mutant: a run resumes at the clock's present value)
RunStart_Resumes(start, now) == now

\* self.current_time = self.start_time
RunStart(start, now) == start

start_simulation(callbacks) ==
  /\ pc \in {"idle", "done"}
  /\ \E cb \in callbacks :
       IF ~tournament_data.loaded \/ timeline_events = <<>>
       THEN /\ lastOp' = "start_simulation_refused"
            /\ UNCHANGED <<tournament_data, current_time, is_running,
                           loop_vars, tick_state, prev_tick, cb_fired,
                           stop_pending, clock_set, lastJump>>
       ELSE /\ callback' = cb
            /\ stop_pending' = FALSE
            /\ clock_set' = TRUE
            /\ LoopIteration(RunStart(start_time, current_time), TRUE, NoState,
                             NoState, cb)
  /\ result' = NoState
  /\ progress' = NoProgress
  /\ UNCHANGED <<timeline_events, start_time, speed_multiplier, api_created,
                 eq_ctx, loaded0, file_read, app, remembered>>

\* the awaited callback returns
CallbackReturns ==
  /\ pc = "callback"
  /\ pc' = "sleep"
  /\ last_state' = RememberState(current_state, last_state)
  /\ current_time' = current_time + AdvanceSeconds(speed_multiplier)
  /\ lastJump' = <<"advance", 0>>
  /\ Returns("callback_returned", NoState, NoProgress)
  /\ UNCHANGED <<tournament_data, timeline_events, start_time, is_running,
                 speed_multiplier, api_created, callback, current_state,
                 eq_ctx, tick_state, prev_tick, cb_fired,
                 stop_pending, clock_set, loaded0, file_read, app, remembered>>

\* the awaited callback raises: the except clause of start_simulation names
\* KeyboardInterrupt only, so any other exception leaves start_simulation
\* before the assignment of line 209
CallbackRaises(exceptions) ==
  /\ pc = "callback"
  /\ pc' = "done"
  /\ \E e \in exceptions :
       IF e = "KeyboardInterrupt"
       THEN is_running' = FALSE /\ lastOp' = "interrupted"
       ELSE is_running' = is_running /\ lastOp' = "callback_raised"
  /\ result' = NoState
  /\ progress' = NoProgress
  /\ UNCHANGED <<tournament_data, timeline_events, current_time, start_time,
                 speed_multiplier, api_created, callback, last_state,
                 current_state, eq_ctx, lastJump, tick_state, prev_tick,
                 cb_fired, stop_pending, clock_set, loaded0, file_read, app,
                 remembered>>

\* asyncio.sleep returns: the loop condition is checked again
SleepReturns ==
  /\ pc = "sleep"
  /\ LoopIteration(current_time, is_running, last_state, tick_state, callback)
  /\ result' = NoState
  /\ progress' = NoProgress
  /\ UNCHANGED <<timeline_events, start_time, speed_multiplier, api_created,
                 callback, eq_ctx, stop_pending, clock_set, loaded0, file_read, app,
                 remembered>>

stop_simulation ==
  /\ Suspended
  /\ is_running' = FALSE
  /\ stop_pending' = (stop_pending \/ pc \in {"callback", "sleep"})
  /\ Returns("stop_simulation", NoState, NoProgress)
  /\ UNCHANGED <<tournament_data, timeline_events, current_time, start_time,
                 speed_multiplier, api_created, loop_vars, eq_ctx, lastJump,
                 tick_state, prev_tick, cb_fired, clock_set, loaded0, file_read, app,
                 remembered>>

(***************************************************************************)
(* Bounded inputs                                                          *)
(***************************************************************************)
\* number of matches of a snapshot with bracket dependencies
NMatch == 2
\* the earliest historical timestamp of a snapshot
T0 == 10000

\* typeId is an int or a str; numeric: int(typeId) has a value
NoSource == [type |-> "none", typeId |-> 0, numeric |-> TRUE]
SetSource(id) == [type |-> "set", typeId |-> id, numeric |-> TRUE]
SeedSource(id) == [type |-> "seed", typeId |-> id, numeric |-> TRUE]
\* a source naming a set by a string that is no number ("preview_<id>")
PreviewSource(id) == [type |-> "set", typeId |-> id, numeric |-> FALSE]

MatchRecord(id, tags, timing, src1, src2, phase, group, rnd, upd) ==
  [id |-> id, tag1 |-> tags[1], tag2 |-> tags[2], state |-> COMPLETED,
   started_at |-> timing[1], completed_at |-> timing[2], updated_at |-> upd,
   src1 |-> src1, src2 |-> src2, phase_name |-> phase, phase_group |-> group,
   round |-> rnd]

\* (started_at, completed_at)
Timings == {<<NoneT, NoneT>>, <<T0, T0 + 600>>, <<T0 + 300, NoneT>>,
            <<T0 + 3900, T0 + 4500>>}

\* the match the sources of match i refer to
Other(i, n) == (i % n) + 1

\* the records match i of n may be
DepChoices(i, n) ==
  {MatchRecord(i, <<"P", "Q">>, tm, NoSource, NoSource, "Bracket", "A", 1, NoneT) :
     tm \in Timings}
  \cup
  {MatchRecord(i, <<"P", "Q">>, tm, SetSource(Other(i, n)), NoSource,
               "Bracket", "A", 2, NoneT) :
     tm \in {<<NoneT, NoneT>>, <<T0, T0 + 600>>, <<T0 + 3900, T0 + 4500>>}}
  \cup
  {MatchRecord(i, <<"P", "Q">>, <<NoneT, NoneT>>, NoSource,
               SetSource(Other(i, n)), "Bracket", "A", 2, T0),
   MatchRecord(i, <<"P", "Q">>, <<T0, T0 + 600>>, SeedSource(Other(i, n)),
               NoSource, "Bracket", "A", 2, T0)}
  \cup
  {MatchRecord(i, tags, <<T0, T0 + 600>>, NoSource, NoSource, "Bracket", "A",
               1, NoneT) :
     tags \in {<<TBD, "Q">>, <<"P", TBD>>, <<"", "Q">>}}

RECURSIVE SnapshotsOf(_, _)
SnapshotsOf(n, k) ==
  IF k = 0 THEN {<<>>}
  ELSE {Append(s, m) : s \in SnapshotsOf(n, k - 1), m \in DepChoices(k, n)}

DepSnapshots == SnapshotsOf(NMatch, NMatch)

\* jump_to_time arguments
JumpTimes == {0, T0, T0 + 300, T0 + 599, T0 + 600, T0 + 900, T0 + 3900,
              T0 + 9000}
\* jump_to_progress arguments (numerator, denominator)
JumpFractions == {<<-1, 2>>, <<1, 4>>, <<1, 1>>, <<3, 2>>}

\* snapshot files: every snapshot as a well-formed file, and files that are
\* unreadable or lack a field (station is optional, the others are required)
WellFormed(snap) == [readable |-> TRUE, missing |-> {}, matches |-> snap]

MalformedInputs ==
  {[readable |-> FALSE, missing |-> {}, matches |-> <<>>]}
  \cup
  {[readable |-> TRUE, missing |-> {f},
    matches |-> <<MatchRecord(1, <<"P", "Q">>, <<T0, T0 + 600>>, NoSource,
                              NoSource, "Bracket", "A", 1, NoneT)>>] :
     f \in {"state", "player1", "duration_minutes"}}

RawInputs(snapshots) == {WellFormed(snap) : snap \in snapshots} \cup MalformedInputs

(***************************************************************************)
(* Specification of the pull interface: load, jumps, queries, polls        *)
(***************************************************************************)
InitPull == Init({<<1800, 1>>}, {FALSE})

\* the snapshot files load_tournament may find
DepInputs == RawInputs(DepSnapshots)

Next ==
  \/ load_tournament(DepInputs)
  \/ GetCurrentState({FALSE})
  \/ GetSimulationProgress
  \/ JumpToTime(JumpTimes)
  \/ JumpToProgress(JumpFractions)
  \/ SimulatedTournamentAPI_init
  \/ fetch_sets

Spec == InitPull /\ [][Next]_vars

(***************************************************************************)
(* Specification for repeated queries: snapshots whose records carry every *)
(* stored state, queries whose result the caller keeps                     *)
(***************************************************************************)
DetChoices(i, n) ==
  {MatchRecord(i, <<"P", "Q">>, <<T0, T0 + 600>>, NoSource, NoSource,
               "Bracket", "A", 1, NoneT),
   [MatchRecord(i, <<"P", "Q">>, <<T0 + 300, NoneT>>, NoSource, NoSource,
                "Bracket", "A", 1, T0) EXCEPT !.state = READY],
   [MatchRecord(i, <<"P", "Q">>, <<NoneT, NoneT>>, SetSource(Other(i, n)),
                NoSource, "Bracket", "A", 2, NoneT) EXCEPT !.state = IN_PROGRESS],
   [MatchRecord(i, <<"P", "Q">>, <<T0 + 3900, T0 + 4500>>, NoSource, NoSource,
                "Top 8", "B", 1, NoneT) EXCEPT !.state = WAITING]}

RECURSIVE DetSnapshotsOf(_, _)
DetSnapshotsOf(n, k) ==
  IF k = 0 THEN {<<>>}
  ELSE {Append(s, m) : s \in DetSnapshotsOf(n, k - 1), m \in DetChoices(k, n)}

DetSnapshots == DetSnapshotsOf(NMatch, NMatch)

DetJumpTimes == {0, T0 + 300, T0 + 600, T0 + 4000, T0 + 9000}
DetJumpFractions == {<<0, 1>>, <<1, 1>>}

\* the snapshot files load_tournament may find
DetInputs == RawInputs(DetSnapshots)

NextDet ==
  \/ load_tournament(DetInputs)
  \/ GetCurrentState(BOOLEAN)
  \/ JumpToTime(DetJumpTimes)
  \/ JumpToProgress(DetJumpFractions)
  \/ SimulatedTournamentAPI_init
  \/ fetch_sets

SpecDet == Init({<<1800, 1>>}, {FALSE}) /\ [][NextDet]_vars

(***************************************************************************)
(* Specification for the organizer-constraint filter: snapshots of one or  *)
(* two pools whose matches are in progress together late in the event      *)
(***************************************************************************)
\* number of matches of a pool snapshot
NPool == 5

\* what a pool match may be: 1 played early, 2 started early and never
\* completed, 3 started late and never completed, 4 never started
PoolKinds == 1..4

PoolTiming(kind) ==
  IF kind = 1 THEN <<T0, T0 + 600>>
  ELSE IF kind = 2 THEN <<T0, NoneT>>
  ELSE IF kind = 3 THEN <<T0 + 3900, NoneT>>
  ELSE <<NoneT, NoneT>>

\* the kinds of the matches 1..n, in non-decreasing order
PoolKindSeqs(n) ==
  {q \in [1..n -> PoolKinds] : \A i \in 1..(n - 1) : q[i] <= q[i + 1]}

PoolSnapshots ==
  {[i \in 1..NPool |->
      MatchRecord(i, <<"P", "Q">>, PoolTiming(kinds[i]), NoSource, NoSource,
                  "Pools", IF two /\ i % 2 = 1 THEN "B" ELSE "A", 1, NoneT)] :
     kinds \in PoolKindSeqs(NPool), two \in BOOLEAN}

PoolJumpTimes == {T0 + 3600, T0 + 3601, T0 + 4000, T0 + 4499, T0 + 4500,
                  T0 + 9000}

\* the snapshot files load_tournament may find
PoolInputs == RawInputs(PoolSnapshots)

NextPool ==
  \/ load_tournament(PoolInputs)
  \/ GetCurrentState({FALSE})
  \/ JumpToTime(PoolJumpTimes)
  \/ SimulatedTournamentAPI_init
  \/ fetch_sets

SpecPool == Init({<<1800, 1>>}, {FALSE}) /\ [][NextPool]_vars

(***************************************************************************)
(* Specification of the simulation driver: one start_simulation run at a   *)
(* time, other tasks running at its suspension points                      *)
(***************************************************************************)
\* the records match i of n may be: played early, started and never
\* completed, or never started and waiting for the other match
LoopChoices(i, n) ==
  {MatchRecord(i, <<"P", "Q">>, <<T0, T0 + 600>>, NoSource, NoSource,
               "Bracket", "A", 1, NoneT),
   MatchRecord(i, <<"P", "Q">>, <<T0 + 300, NoneT>>, NoSource, NoSource,
               "Bracket", "A", 1, NoneT),
   MatchRecord(i, <<"P", "Q">>, <<NoneT, NoneT>>, SetSource(Other(i, n)),
               NoSource, "Bracket", "A", 2, NoneT)}

RECURSIVE LoopSnapshotsOf(_, _)
LoopSnapshotsOf(n, k) ==
  IF k = 0 THEN {<<>>}
  ELSE {Append(s, m) : s \in LoopSnapshotsOf(n, k - 1), m \in LoopChoices(k, n)}

LoopSnapshots == LoopSnapshotsOf(NMatch, NMatch)

\* speed_multiplier: 0.5, 1800.0
LoopSpeeds == {<<1, 2>>, <<1800, 1>>}
LoopJumpTimes == {T0}
LoopJumpFractions == {<<1, 1>>}

\* the snapshot files load_tournament may find
LoopInputs == RawInputs(LoopSnapshots)

NextLoop ==
  \/ load_tournament(LoopInputs)
  \/ start_simulation(BOOLEAN)
  \/ CallbackReturns
  \/ SleepReturns
  \/ stop_simulation
  \/ GetCurrentState({FALSE})
  \/ GetSimulationProgress
  \/ JumpToTime(LoopJumpTimes)
  \/ JumpToProgress(LoopJumpFractions)
  \/ SimulatedTournamentAPI_init
  \/ fetch_sets

SpecLoop == Init(LoopSpeeds, BOOLEAN) /\ [][NextLoop]_vars

(***************************************************************************)
(* Specification for runs of the driver on its own: no poll and no jump    *)
(* while the loop runs; the callback returns or raises                     *)
(***************************************************************************)
\* speed_multiplier: 1800.0, 700.0
RunSpeeds == {<<1800, 1>>, <<700, 1>>}
\* what a callback may raise
CallbackExceptions == {"Exception", "KeyboardInterrupt"}
RunJumpTimes == {T0 + 300}

\* a jump between two runs
JumpWhenIdle == pc \in {"idle", "done"} /\ JumpToTime(RunJumpTimes)

NextRun ==
  \/ load_tournament(LoopInputs)
  \/ start_simulation(BOOLEAN)
  \/ CallbackReturns
  \/ CallbackRaises(CallbackExceptions)
  \/ SleepReturns
  \/ stop_simulation
  \/ JumpWhenIdle

SpecRun == Init(RunSpeeds, BOOLEAN) /\ [][NextRun]_vars

(***************************************************************************)
(* Specification for dependency scenarios: a match without sources and a   *)
(* match whose sources name it, name no match of the snapshot, or name a   *)
(* set by a string that is no number                                       *)
(***************************************************************************)
\* an id no match of the snapshot has
DanglingId == NMatch + 1

DepsFirst(n) ==
  {MatchRecord(1, <<"P", "Q">>, tm, NoSource, NoSource, "Bracket", "A", 1, NoneT) :
     tm \in {<<T0, T0 + 600>>, <<T0 + 300, NoneT>>}}

DepsSecond(n) ==
  {MatchRecord(2, <<"R", "S">>, tm, srcs[1], srcs[2], "Bracket", "A", 2, NoneT) :
     tm \in {<<NoneT, NoneT>>, <<T0 + 900, NoneT>>},
     srcs \in {<<SetSource(1), NoSource>>,
               <<SetSource(DanglingId), NoSource>>,
               <<SetSource(1), SetSource(DanglingId)>>,
               <<PreviewSource(DanglingId), NoSource>>,
               <<SetSource(1), PreviewSource(DanglingId)>>}}

\* the matches 3..n have no sources and are never played
DepsSnapshots ==
  {[i \in 1..NMatch |->
      IF i = 1 THEN m1 ELSE IF i = 2 THEN m2
      ELSE MatchRecord(i, <<"P", "Q">>, <<NoneT, NoneT>>, NoSource, NoSource,
                       "Bracket", "A", 1, NoneT)] :
     m1 \in DepsFirst(NMatch), m2 \in DepsSecond(NMatch)}

DepsJumpTimes == {T0 + 300, T0 + 700, T0 + 9000}
\* speed_multiplier = 4300.0: the first advance of a run goes from start_time
\* to 700 seconds after the first event
DepsSpeeds == {<<LeadIn + 700, 1>>}

\* the snapshot files load_tournament may find
DepsInputs == RawInputs(DepsSnapshots)

NextDeps ==
  \/ load_tournament(DepsInputs)
  \/ GetCurrentState({FALSE})
  \/ GetSimulationProgress
  \/ JumpToTime(DepsJumpTimes)
  \/ start_simulation({TRUE})
  \/ CallbackReturns
  \/ SleepReturns
  \/ SimulatedTournamentAPI_init
  \/ fetch_sets

SpecDeps == Init(DepsSpeeds, {FALSE}) /\ [][NextDeps]_vars

(***************************************************************************)
(* Specification for pool sizes: one pool of 1..NCap matches that wait or  *)
(* are ready, and one match whose late completion ends the timeline        *)
(***************************************************************************)
\* the largest number of waiting or ready matches in the pool
NCap == 15

\* n matches of which the first r were started (late: shortly before the
\* timeline ends) and never completed; match n + 1 was played from T0 until
\* the end of the timeline
CapSnapshot(n, r, late) ==
  [i \in 1..(n + 1) |->
     IF i = n + 1
     THEN MatchRecord(i, <<"P", "Q">>, <<T0, T0 + 3900>>, NoSource, NoSource,
                      "Pools", "A", 1, NoneT)
     ELSE IF i <= r
     THEN MatchRecord(i, <<"P", "Q">>,
                      <<IF late THEN T0 + 3700 ELSE T0, NoneT>>,
                      NoSource, NoSource, "Pools", "A", 1, NoneT)
     ELSE MatchRecord(i, <<"P", "Q">>, <<NoneT, NoneT>>, NoSource, NoSource,
                      "Pools", "A", 1, NoneT)]

CapSnapshots ==
  {CapSnapshot(n, r, late) : n \in 1..NCap, r \in {0, 1, 2}, late \in BOOLEAN}

CapJumpTimes == {T0 + 3600, T0 + 3601, T0 + 3800, T0 + 9000}

\* the snapshot files load_tournament may find
CapInputs == RawInputs(CapSnapshots)

NextCap ==
  \/ load_tournament(CapInputs)
  \/ GetCurrentState({FALSE})
  \/ JumpToTime(CapJumpTimes)
  \/ SimulatedTournamentAPI_init
  \/ fetch_sets

SpecCap == Init({<<1800, 1>>}, {FALSE}) /\ [][NextCap]_vars

(***************************************************************************)
(* The display program: main() and TournamentAPI.fetch_sets                *)
(***************************************************************************)
\* Python truthiness of an optional str: None and "" are falsy
TruthyStr(x) == x # NoneStr /\ x # ""

\* app = TournamentDisplay(api_token=..., event_id=..., event_slug=...);
\* TournamentDisplay.__init__ hands the three values to TournamentAPI
Display(a, token, event, slug) ==
  [a EXCEPT !.stage = "display", !.api_token = token, !.event_id = event,
            !.event_slug = slug]

\* sys.exit(1)
Exited(a) == [a EXCEPT !.stage = "exited"]

\* main(): from the parsed arguments to the TournamentDisplay it constructs
\* (find_active is always False for the main() of matchcaller.py, which has
\* no such option); found is what find_active_tournament returns
main ==
  /\ app.stage = "args"
  /\ app' =
       IF app.demo THEN Display(app, NoneStr, NoneStr, NoneStr)
       ELSE IF app.find_active
       THEN (IF ~TruthyStr(app.token) THEN Exited(app)
             ELSE IF app.found = "raises" \/ ~TruthyStr(app.found)
             THEN Exited(app)
             ELSE Display(app, app.token, NoneStr, app.found))
       ELSE IF ~TruthyStr(app.token)
               \/ (~TruthyStr(app.event) /\ ~TruthyStr(app.slug))
       THEN Display(app, NoneStr, NoneStr, NoneStr)
       ELSE Display(app, app.token, app.event, app.slug)
  /\ UNCHANGED <<sim_vars, loop_vars, eq_ctx, obs_vars>>

\* what fetch_sets returns when the request was made: the parsed response,
\* or the mock data from the handlers of the exceptions it raised itself
\* (HTTP status, GraphQL errors, no data) and of parse_api_response
AfterRequest(http) == IF http = "ok" THEN "parsed" ELSE "mock"

\* TournamentAPI.fetch_sets; lookup is what get_event_id_from_slug returns,
\* http what the request to start.gg meets
TournamentAPI_fetch_sets ==
  /\ app.stage \in {"display", "fetched"}
  /\ \E lookup \in {NoneStr, "9001"},
        http \in {"ok", "non200", "graphql_errors", "no_data", "unparsable"} :
       LET by_slug == TruthyStr(app.event_slug) /\ ~TruthyStr(app.event_id)
           event_id == IF by_slug THEN lookup ELSE app.event_id
       IN IF ~TruthyStr(app.api_token)
          THEN app' = [app EXCEPT !.stage = "fetched", !.fetched = "mock",
                                  !.lookup = NoneStr, !.http = "none"]
          ELSE IF ~TruthyStr(event_id)
          THEN app' = [app EXCEPT !.stage = "fetched", !.fetched = "mock",
                                  !.event_id = event_id,
                                  !.lookup = NoneStr, !.http = "none"]
          ELSE app' = [app EXCEPT !.stage = "fetched",
                                  !.fetched = AfterRequest(http),
                                  !.event_id = event_id,
                                  !.lookup = IF by_slug THEN lookup ELSE NoneStr,
                                  !.http = http]
  /\ UNCHANGED <<sim_vars, loop_vars, eq_ctx, obs_vars>>

\* command lines: every option absent, empty or given
AppInputs ==
  {[NoApp EXCEPT !.stage = "args", !.token = t, !.event = e, !.slug = s,
                 !.demo = d, !.find_active = f, !.found = r] :
     t \in {NoneStr, "", "tok"}, e \in {NoneStr, "", "123"},
     s \in {NoneStr, "", "tournament/t/event/e"}, d \in BOOLEAN,
     f \in BOOLEAN, r \in {NoneStr, "tournament/a/event/b", "raises"}}

\* a TournamentAPI constructed directly, with each argument absent, empty or
\* given
DirectAPIs ==
  {[NoApp EXCEPT !.stage = "display", !.api_token = t, !.event_id = e,
                 !.event_slug = s] :
     t \in {NoneStr, "", "tok"}, e \in {NoneStr, "", "123"},
     s \in {NoneStr, "", "tournament/t/event/e"}}

InitApp ==
  InitSimulator({<<60, 1>>}, {FALSE}) /\ app \in AppInputs \cup DirectAPIs

NextApp ==
  \/ main
  \/ TournamentAPI_fetch_sets

SpecApp == InitApp /\ [][NextApp]_vars

(***************************************************************************)
(* The display on the simulator: TournamentDisplay with its api replaced   *)
(* by a SimulatedTournamentAPI (simulate_tournament of simulator_cli.py)   *)
(***************************************************************************)
\* tournament_name of the TournamentState the simulator returns
TournamentName(st) ==
  IF st.event_name = "No Tournament" THEN "No Tournament"
  ELSE IF st.event_name = "Simulation Error" THEN "Error"
  ELSE "Tournament"

\* show_loading_state
show_loading_state(ui) ==
  [ui EXCEPT !.event_name = "Fetching tournament data from start.gg...",
             !.matches = <<>>, !.total_sets = 0, !.ready_sets = 0,
             !.in_progress_sets = 0, !.last_update = Stamp("loading", 0)]

\* (mutant: a failed fetch puts the display back into its loading state)
OnFetchError_Clears(ui, wall) ==
  [show_loading_state(ui) EXCEPT !.outcome = "error",
                                 !.last_update = Stamp("error", wall)]

\* except Exception: "Keep existing data, just update timestamp"
OnFetchError(ui, wall) ==
  [ui EXCEPT !.outcome = "error", !.last_update = Stamp("error", wall)]

\* the try block of fetch_tournament_data once api.fetch_sets has returned
OnFetched(ui, data, wall) ==
  LET rows == [i \in 1..Len(data.sets) |-> MatchRow(data.sets[i])]
  IN [ui EXCEPT
        !.outcome = "updated",
        !.event_name = data.event_name,
        !.title = <<TournamentName(data), data.event_name>>,
        !.matches = rows,
        !.total_sets = Len(rows),
        !.ready_sets =
           Cardinality({i \in 1..Len(rows) :
              rows[i].state = READY /\ ~Truthy(rows[i].started_at)}),
        !.in_progress_sets =
           Cardinality({i \in 1..Len(rows) :
              \/ rows[i].state = IN_PROGRESS
              \/ (rows[i].state = READY /\ Truthy(rows[i].started_at))}),
        !.last_update = Stamp("time", wall)]

\* what datetime.now() may read
Walls == {1, 2}

\* on_mount: the loading state is shown (the first fetch is a worker that
\* runs afterwards)
on_mount ==
  /\ api_created
  /\ tournament_data.loaded
  /\ Suspended
  /\ ~app.ui.mounted
  /\ app' = [app EXCEPT !.ui = show_loading_state([@ EXCEPT !.mounted = TRUE])]
  /\ Returns("on_mount", NoState, NoProgress)
  /\ UNCHANGED <<sim_vars, loop_vars, eq_ctx, lastJump, tick_state, prev_tick,
                 cb_fired, stop_pending, clock_set, loaded0, file_read,
                 remembered>>

\* fetch_tournament_data, started by on_mount, by the poll interval or by
\* action_refresh; api.fetch_sets is SimulatedTournamentAPI.fetch_sets
fetch_tournament_data ==
  /\ app.ui.mounted
  /\ app.ui.running
  /\ SimulatedTournamentAPI_fetch_sets
  /\ \E wall \in Walls :
       app' = [app EXCEPT !.ui =
                 IF result' = RaisedValueError THEN OnFetchError(@, wall)
                 ELSE OnFetched(@, result', wall)]

\* action_quit: self.exit()
action_quit ==
  /\ app.ui.mounted
  /\ app.ui.running
  /\ Suspended
  /\ app' = [app EXCEPT !.ui.running = FALSE]
  /\ Returns("action_quit", NoState, NoProgress)
  /\ UNCHANGED <<sim_vars, loop_vars, eq_ctx, lastJump, tick_state, prev_tick,
                 cb_fired, stop_pending, clock_set, loaded0, file_read,
                 remembered>>

\* match 1 is played from T0 to T0 + 600; match 2 waits for it, and its other
\* source may name a set by a string that is no number
DisplaySecond ==
  {MatchRecord(2, <<"R", "S">>, tm, srcs[1], srcs[2], "Bracket", "A", 2, NoneT) :
     tm \in {<<T0 + 900, NoneT>>, <<T0 + 900, T0 + 1500>>},
     srcs \in {<<SetSource(1), NoSource>>,
               <<SetSource(1), PreviewSource(DanglingId)>>,
               <<PreviewSource(DanglingId), NoSource>>}}

DisplaySnapshots ==
  {[i \in 1..NMatch |->
      IF i = 1
      THEN MatchRecord(1, <<"P", "Q">>, <<T0, T0 + 600>>, NoSource, NoSource,
                       "Bracket", "A", 1, NoneT)
      ELSE IF i = 2 THEN m2
      ELSE MatchRecord(i, <<"P", "Q">>, <<NoneT, NoneT>>, NoSource, NoSource,
                       "Bracket", "A", 1, NoneT)] :
     m2 \in DisplaySecond}

\* speed_multiplier = 700.0: the sixth poll is at the end of match 1
DisplaySpeeds == {<<700, 1>>}

\* the snapshot files load_tournament may find
DisplayInputs == RawInputs(DisplaySnapshots)

NextDisplay ==
  \/ load_tournament(DisplayInputs)
  \/ SimulatedTournamentAPI_init
  \/ on_mount
  \/ fetch_tournament_data
  \/ action_quit

SpecDisplay == Init(DisplaySpeeds, {FALSE}) /\ [][NextDisplay]_vars

(***************************************************************************)
(* Specification for phase progression: NBracket matches of phase          *)
(* "Bracket" completed one after the other (or never), a "Top 24" match    *)
(* and a "Top 8" match                                                     *)
(***************************************************************************)
\* number of matches of phase "Bracket"
NBracket == 4

\* Bracket match i is played and completed at T0 + 600 * i, or was started
\* and never completed
BracketMatch(i, played) ==
  MatchRecord(i, <<"P", "Q">>,
              <<T0 + 600 * (i - 1), IF played THEN T0 + 600 * i ELSE NoneT>>,
              NoSource, NoSource, "Bracket", "A", 1, NoneT)

PhaseSources == {NoSource, SetSource(1), SetSource(NBracket)}

\* matches 1..NBracket are of phase "Bracket", then one "Top 24" and one
\* "Top 8" match that were never started
PhaseSnapshots ==
  {[i \in 1..(NBracket + 2) |->
      IF i <= NBracket THEN BracketMatch(i, played[i])
      ELSE IF i = NBracket + 1
      THEN MatchRecord(i, <<"R", "S">>, <<NoneT, NoneT>>, s24, NoSource,
                       "Top 24", "B", 1, NoneT)
      ELSE MatchRecord(i, <<"T", "U">>, <<NoneT, NoneT>>, NoSource, s8,
                       "Top 8", "C", 1, NoneT)] :
     played \in [1..NBracket -> BOOLEAN], s24 \in PhaseSources,
     s8 \in PhaseSources}

PhaseJumpTimes == {T0 + 600 * k : k \in 0..(NBracket + 1)}

\* the snapshot files load_tournament may find
PhaseInputs == RawInputs(PhaseSnapshots)

NextPhase ==
  \/ load_tournament(PhaseInputs)
  \/ GetCurrentState({FALSE})
  \/ JumpToTime(PhaseJumpTimes)
  \/ SimulatedTournamentAPI_init
  \/ fetch_sets

SpecPhase == Init({<<1800, 1>>}, {FALSE}) /\ [][NextPhase]_vars

(***************************************************************************)
(* Specification for the order within a pool: NPrio matches of one pool    *)
(* that are ready or waiting past the opening window, with different       *)
(* updated_at, one of them possibly with an empty player tag               *)
(***************************************************************************)
\* number of matches of the pool
NPrio == 4

\* a match of the pool: started at T0 and never completed (ready once 10
\* minutes have passed), or never started (waiting)
PrioMatch(i, started, upd, tag) ==
  MatchRecord(i, <<tag, "Q">>, <<IF started THEN T0 ELSE NoneT, NoneT>>,
              NoSource, NoSource, "Pools", "A", 1, upd)

PrioUpdates == {T0 + 100, T0 + 200}

\* match NPrio + 1, of another pool, is played until the end of the timeline
PrioSnapshots ==
  {[i \in 1..(NPrio + 1) |->
      IF i = NPrio + 1
      THEN MatchRecord(i, <<"P", "Q">>, <<T0, T0 + 3900>>, NoSource, NoSource,
                       "Pools", "Z", 1, NoneT)
      ELSE PrioMatch(i, started[i], upd[i], IF i = 1 THEN tag ELSE "P")] :
     started \in [1..NPrio -> BOOLEAN], upd \in [1..NPrio -> PrioUpdates],
     tag \in {"P", ""}}

PrioJumpTimes == {T0 + 3600, T0 + 3700}

\* the snapshot files load_tournament may find
PrioInputs == RawInputs(PrioSnapshots)

NextPrio ==
  \/ load_tournament(PrioInputs)
  \/ GetCurrentState({FALSE})
  \/ JumpToTime(PrioJumpTimes)
  \/ SimulatedTournamentAPI_init
  \/ fetch_sets

SpecPrio == Init({<<1800, 1>>}, {FALSE}) /\ [][NextPrio]_vars

(***************************************************************************)
(* Specification for a consumer that polls: the SimulatedTournamentAPI is  *)
(* constructed and fetch_sets is called again and again                    *)
(***************************************************************************)
\* speed_multiplier: 1800.0, 700.0, 0.5
PollSpeeds == {<<1800, 1>>, <<700, 1>>, <<1, 2>>}

NextPoll ==
  \/ load_tournament(DepInputs)
  \/ SimulatedTournamentAPI_init
  \/ fetch_sets
  \/ GetCurrentState({FALSE})

\* what a fetch_sets call does to the clock
fetch_sets_clock ==
  /\ Suspended
  /\ api_created
  /\ tournament_data.loaded
  /\ current_time' = PolledTime(current_time, timeline_events, speed_multiplier)

\* the consumer's poll interval keeps firing: a fetch_sets call that moves the
\* clock is eventually made
SpecPoll ==
  Init(PollSpeeds, {FALSE}) /\ [][NextPoll]_vars
  /\ WF_current_time(fetch_sets_clock)

(***************************************************************************)
(* Specification for jumps by progress: fractions below, within and above  *)
(* [0, 1], the progress read back after each                               *)
(***************************************************************************)
\* jump_to_progress arguments (numerator, denominator)
ProgressFractions ==
  {<<-1, 2>>, <<0, 1>>, <<1, 8>>, <<1, 4>>, <<1, 2>>, <<3, 4>>, <<7, 8>>,
   <<1, 1>>, <<3, 2>>}

NextJump ==
  \/ load_tournament(DepInputs)
  \/ JumpToProgress(ProgressFractions)
  \/ GetSimulationProgress

SpecJump == Init({<<1800, 1>>}, {FALSE}) /\ [][NextJump]_vars

(***************************************************************************)
(* What the properties talk about                                          *)
(***************************************************************************)
Matches == tournament_data.matches
IdsOf(views) == {views[i].id : i \in 1..Len(views)}

\* the list _get_available_matches returns in the current state
AvailableNow ==
  _get_available_matches(Matches, timeline_events, current_time, start_time)

\* the last operation returned a TournamentState computed at current_time
JustQueried == lastOp \in {"get_current_state", "fetch_sets"}

\* match id has a completed event at or before time t
HasCompletedEvent(id, t) ==
  \E k \in 1..Len(timeline_events) :
    /\ timeline_events[k].match_id = id
    /\ timeline_events[k].type = "match_completed"
    /\ timeline_events[k].timestamp <= t

\* a slot source of match b is of type "set" and names match a
DependsOn(b, a) ==
  \/ (b.src1.type = "set" /\ b.src1.typeId = a.id)
  \/ (b.src2.type = "set" /\ b.src2.typeId = a.id)

(***************************************************************************)
(* C1 - dependency gating                                                  *)
(***************************************************************************)
\* C1: a match B with a slot source of type "set" naming match A is neither in
\* the list _get_available_matches returns nor in the sets get_current_state
\* returns as long as A has no completed event at or before current_time.
C1_DependencyGating ==
  tournament_data.loaded =>
    \A i, j \in 1..Len(Matches) :
      (DependsOn(Matches[i], Matches[j])
       /\ ~HasCompletedEvent(Matches[j].id, current_time))
      => /\ Matches[i].id \notin IdsOf(AvailableNow)
         /\ JustQueried => Matches[i].id \notin IdsOf(result.sets)

\* a query answered while B, started and not completed itself, waits for A,
\* and the answer shows other matches
C1_Witness ==
  /\ lastOp = "get_current_state"
  /\ result.sets # <<>>
  /\ \E i, j \in 1..Len(Matches) :
       /\ DependsOn(Matches[i], Matches[j])
       /\ Matches[i].src2.type = "set"
       /\ ~HasCompletedEvent(Matches[j].id, current_time)
       /\ ~HasCompletedEvent(Matches[i].id, current_time)
       /\ ~HasTBDPlayer(Matches[i])
       /\ Matches[j].completed_at # NoneT
       /\ current_time < Matches[j].completed_at
       /\ Matches[i].id \notin IdsOf(result.sets)

(***************************************************************************)
(* C2 - concurrency cap after the opening window                           *)
(***************************************************************************)
\* the matches of a list that belong to pool and are in one of the states
CountIn(views, pool, states) ==
  Cardinality({k \in 1..Len(views) :
                 PoolKey(views[k]) = pool /\ views[k].state \in states})

\* C2: at every current_time > start_time + 7200 and for every pool, the sets
\* returned by get_current_state hold at most max_concurrent - (number of
\* InProgress matches of the pool) matches of the pool in state Ready or
\* Waiting, and none when the InProgress matches alone reach max_concurrent;
\* max_concurrent = clamp(n // 3, 2, 4), n the available matches of the pool.
C2_ConcurrencyCap ==
  (lastOp = "get_current_state" /\ tournament_data.loaded
   /\ current_time > start_time + OpeningWindow) =>
    \A k \in 1..Len(AvailableNow) :
      LET pool == PoolKey(AvailableNow[k])
          n == CountIn(AvailableNow, pool, {WAITING, READY, IN_PROGRESS})
          n_in_progress == CountIn(result.sets, pool, {IN_PROGRESS})
      IN CountIn(result.sets, pool, {WAITING, READY})
           <= Max2(0, max_concurrent(n) - n_in_progress)

(***************************************************************************)
(* C3 - TBD exclusion                                                      *)
(***************************************************************************)
\* C3: no match with player1 or player2 tag "TBD" is in the list
\* _get_available_matches returns or in the sets get_current_state returns,
\* at any current_time reached by jumps and advances.
C3_TBDExcluded ==
  /\ \A k \in 1..Len(AvailableNow) :
       AvailableNow[k].tag1 # TBD /\ AvailableNow[k].tag2 # TBD
  /\ \A k \in 1..Len(result.sets) :
       result.sets[k].tag1 # TBD /\ result.sets[k].tag2 # TBD

\* a poll after an advance, on a snapshot holding a match whose second player
\* is TBD, that has no unmet source and historical timestamps around now
C3_Witness ==
  /\ lastOp = "fetch_sets"
  /\ result.sets # <<>>
  /\ \E i \in 1..Len(Matches) :
       /\ Matches[i].tag2 = TBD
       /\ Matches[i].src1.type = "none" /\ Matches[i].src2.type = "none"
       /\ Matches[i].started_at # NoneT
       /\ Matches[i].started_at <= current_time
       /\ current_time < Matches[i].completed_at
       /\ Matches[i].id \notin IdsOf(result.sets)

(***************************************************************************)
(* C4 - empty player tags                                                  *)
(***************************************************************************)
\* C4: no match with an empty player1 or player2 tag is in the list
\* _get_available_matches returns or in the sets get_current_state returns.
C4_EmptyTagExcluded ==
  JustQueried =>
    /\ \A k \in 1..Len(AvailableNow) :
         AvailableNow[k].tag1 # "" /\ AvailableNow[k].tag2 # ""
    /\ \A k \in 1..Len(result.sets) :
         result.sets[k].tag1 # "" /\ result.sets[k].tag2 # ""

(***************************************************************************)
(* C6 - progress                                                           *)
(***************************************************************************)
\* C6: with a non-empty timeline the progress get_simulation_progress returns
\* is (current_time - start_time) / (end_time - start_time) clamped to [0, 1]:
\* it lies in [0, 1], is 0 after jump_to_time(t) with t < start_time and 1
\* after jump_to_time(t) with t > end_time.
C6_ProgressClamped ==
  (lastOp = "get_simulation_progress" /\ timeline_events # <<>>) =>
    LET end_time == EndTime(timeline_events)
    IN /\ progress.den = end_time - start_time
       /\ progress.den > 0
       /\ 0 <= progress.num /\ progress.num <= progress.den
       /\ current_time \in start_time..end_time
            => progress.num = current_time - start_time
       /\ current_time < start_time => progress.num = 0
       /\ current_time > end_time => progress.num = progress.den
       /\ lastJump[1] = "jump_to_time" =>
            /\ lastJump[2] <= start_time => progress.num = 0
            /\ lastJump[2] >= end_time => progress.num = progress.den
            /\ lastJump[2] \in start_time..end_time
                 => progress.num = lastJump[2] - start_time

\* the progress read after a jump past the end of the timeline
C6_Witness ==
  /\ lastOp = "get_simulation_progress"
  /\ timeline_events # <<>>
  /\ lastJump[1] = "jump_to_time"
  /\ lastJump[2] > EndTime(timeline_events)
  /\ progress.num = progress.den

(***************************************************************************)
(* C7 - determinism                                                        *)
(***************************************************************************)
\* the snapshot with every record's stored state field replaced
WithStoredState(td, st) ==
  [td EXCEPT !.matches = [i \in 1..Len(td.matches) |->
                            [td.matches[i] EXCEPT !.state = st]]]

\* C7: for a fixed snapshot the result of get_current_state depends on
\* current_time only: it equals the result an earlier call returned at the same
\* current_time, whatever jumps, advances and queries came between, and it is
\* the result computed from the snapshot with any other stored state field.
C7_Deterministic ==
  (JustQueried /\ tournament_data.loaded) =>
    /\ (remembered.loaded /\ remembered.at = current_time)
         => result = remembered.state
    /\ \A st \in {WAITING, READY, COMPLETED, IN_PROGRESS} :
         result = get_current_state(WithStoredState(tournament_data, st),
                                    timeline_events, current_time, start_time)

\* a second call at the time of a kept earlier one, the clock having been set
\* by another operation in between, returning matches whose derived state is
\* not the stored one
C7_Witness ==
  /\ lastOp = "get_current_state"
  /\ remembered.loaded
  /\ remembered.at = current_time
  /\ remembered.jump # lastJump
  /\ result = remembered.state
  /\ \E k \in 1..Len(result.sets) : \E i \in 1..Len(Matches) :
       Matches[i].id = result.sets[k].id /\ Matches[i].state # result.sets[k].state

(***************************************************************************)
(* C5 - the clock stays within the timeline                                *)
(***************************************************************************)
\* C5: once a non-empty timeline is built and the driver has set the clock,
\* start_time <= current_time <= timestamp of the last timeline event, in
\* every state, whatever start_simulation ticks, fetch_sets calls and jumps
\* have run.
C5_ClockInRange ==
  (timeline_events # <<>> /\ clock_set) =>
    /\ start_time <= current_time
    /\ current_time <= EndTime(timeline_events)

(***************************************************************************)
(* C8 - queries by another task leave the loop's data alone                *)
(***************************************************************************)
\* the state get_current_state computes from the records as they were loaded
PristineState ==
  get_current_state([loaded |-> TRUE, matches |-> loaded0], timeline_events,
                    current_time, start_time)

\* C8: a get_current_state or get_simulation_progress call made by another
\* task while the start_simulation loop is suspended (in the awaited callback
\* or in the sleep) leaves current_time, is_running, timeline_events, every
\* snapshot record and the loop's locals unchanged, and the state the loop
\* hands to its callback is the one computed from the records as loaded.
C8_QueriesLeaveLoopAlone ==
  /\ [][(pc \in {"callback", "sleep"}
         /\ lastOp' \in {"get_current_state", "get_simulation_progress"})
        => UNCHANGED <<current_time, is_running, timeline_events, start_time,
                       tournament_data, loop_vars, tick_state, prev_tick,
                       cb_fired>>]_vars
  /\ []((lastOp = "tick" /\ pc = "callback") => current_state = PristineState)

\* a query answered with matches during the awaited callback of the loop's
\* second tick or a later one
C8_Witness ==
  /\ pc = "callback"
  /\ prev_tick # NoState
  /\ lastOp = "get_current_state"
  /\ result.sets # <<>>
  /\ tournament_data.matches = loaded0

(***************************************************************************)
(* C9 - the callback fires on a change only                                *)
(***************************************************************************)
\* C9: on a tick of start_simulation whose computed state equals the state
\* computed on the previous tick the callback is not invoked; the callback is
\* invoked only on ticks whose state differs from the previous tick's.
C9_CallbackOnChangeOnly ==
  (pc \in {"callback", "sleep"} /\ cb_fired) =>
    StateDiffers(tick_state, prev_tick, eq_ctx)

\* a tick with a callback given, computing the state of the tick before it,
\* matches included; the callback was not invoked
C9_Witness ==
  /\ lastOp = "tick"
  /\ callback
  /\ tick_state.sets # <<>>
  /\ ~StateDiffers(tick_state, prev_tick, eq_ctx)
  /\ ~cb_fired
  /\ pc = "sleep"

(***************************************************************************)
(* C10 - stop_simulation ends the loop within one tick                     *)
(***************************************************************************)
\* C10: after stop_simulation is called while the loop is suspended (in the
\* awaited callback or in the sleep), the loop computes no further state and
\* invokes the callback no more; at its next loop-condition check it exits and
\* start_simulation returns with is_running = False.
C10_StopWithinOneTick ==
  [][(stop_pending /\ pc \in {"callback", "sleep"}) =>
       /\ lastOp' # "tick"
       /\ UNCHANGED <<tick_state, prev_tick, current_state, cb_fired>>
       /\ pc' = "callback" => pc = "callback"
       /\ (pc = "callback" /\ pc' # pc) => pc' = "sleep"
       /\ (pc = "sleep" /\ pc' # pc) => (pc' = "done" /\ ~is_running')
    ]_vars

\* the loop has ended on a stop that came during the awaited callback of a
\* tick, with timeline left to play
C10_Witness ==
  /\ lastOp = "loop_exit"
  /\ stop_pending
  /\ cb_fired
  /\ pc = "done"
  /\ ~is_running
  /\ current_time <= EndTime(timeline_events)

(***************************************************************************)
(* C11 - completed ids are monotone in time                                *)
(***************************************************************************)
\* the times at which the timeline has an event
EventTimes == {timeline_events[k].timestamp : k \in 1..Len(timeline_events)}

\* C11: an id that is in completed_ids at a time T is in completed_ids at
\* every later time, so at a current_time >= T no query returns a match that
\* was completed at T.
C11_CompletedMonotone ==
  tournament_data.loaded =>
    \A t \in EventTimes \cup {start_time} :
      t <= current_time =>
        /\ CompletedIds(timeline_events, t)
             \subseteq CompletedIds(timeline_events, current_time)
        /\ JustQueried =>
             IdsOf(result.sets) \cap CompletedIds(timeline_events, t) = {}

\* a query answered more than an hour after a match was completed, showing
\* another match
C11_Witness ==
  /\ lastOp = "get_current_state"
  /\ result.sets # <<>>
  /\ \E t \in EventTimes :
       /\ t + 3600 <= current_time
       /\ CompletedIds(timeline_events, t) # {}

(***************************************************************************)
(* C12 - a snapshot without usable events                                  *)
(***************************************************************************)
\* C12: when the timeline built by load_tournament has no event (every match
\* has a TBD player or neither started_at nor completed_at), load_tournament
\* does not return success: the caller is told that the simulation cannot run.
C12_EmptyTimelineReported ==
  (lastOp = "load_tournament" /\ timeline_events = <<>>)
    => result = ReturnedBool(FALSE)

(***************************************************************************)
(* C13 - malformed snapshot files                                          *)
(***************************************************************************)
\* C13: after load_tournament read a snapshot file that is malformed or lacks
\* a required field, it has returned False, tournament_data is unset and the
\* timeline is empty; start_simulation then returns without setting
\* is_running or invoking the callback, and get_current_state returns no sets.
C13_MalformedRefused ==
  (~file_read.readable \/ file_read.missing \cap RequiredFields # {}) =>
    /\ ~tournament_data.loaded
    /\ timeline_events = <<>>
    /\ lastOp = "load_tournament" => result = ReturnedBool(FALSE)
    /\ ~is_running
    /\ pc = "idle"
    /\ ~cb_fired
    /\ tick_state = NoState
    /\ lastOp = "get_current_state" => result.sets = <<>>

\* start_simulation has just returned without running, on a simulator whose
\* snapshot file lacked a required field
C13_Witness ==
  /\ lastOp = "start_simulation_refused"
  /\ file_read.readable
  /\ file_read.missing # {}
  /\ ~tournament_data.loaded

(***************************************************************************)
(* C14 - dangling references                                               *)
(***************************************************************************)
\* the source is of type "set" and names a set no match of the snapshot is
IsDangling(src) ==
  /\ src.type = "set"
  /\ Truthy(src.typeId)
  /\ \/ ~src.numeric
     \/ \A j \in 1..Len(Matches) : Matches[j].id # src.typeId

\* C14: a match one of whose slot sources names a match id that is not in the
\* snapshot is in no result of get_current_state, and get_current_state does
\* not fail because of it.
C14_DanglingTolerated ==
  (lastOp = "get_current_state" /\ tournament_data.loaded) =>
    \A i \in 1..Len(Matches) :
      (IsDangling(Matches[i].src1) \/ IsDangling(Matches[i].src2)) =>
        /\ result # RaisedValueError
        /\ Matches[i].id \notin IdsOf(result.sets)

(***************************************************************************)
(* C15 - dependency cycles                                                 *)
(***************************************************************************)
\* C15: two matches each of which has a slot source naming the other are in
\* no result of get_current_state, at any current_time and whatever their
\* started_at and completed_at.
C15_CycleNeverVisible ==
  (lastOp = "get_current_state" /\ tournament_data.loaded) =>
    \A i, j \in 1..Len(Matches) :
      (i # j /\ DependsOn(Matches[i], Matches[j])
       /\ DependsOn(Matches[j], Matches[i]))
      => Matches[i].id \notin IdsOf(result.sets)

(***************************************************************************)
(* C16 - the two-match scenario                                            *)
(***************************************************************************)
\* match 1 has no sources and was played from T0 to T0 + 600; match 2 has a
\* source naming match 1 and was never played
Scenario16 ==
  /\ tournament_data.loaded
  /\ Len(Matches) >= 2
  /\ Matches[1] = MatchRecord(1, <<"P", "Q">>, <<T0, T0 + 600>>, NoSource,
                              NoSource, "Bracket", "A", 1, NoneT)
  /\ Matches[2] = MatchRecord(2, <<"R", "S">>, <<NoneT, NoneT>>, SetSource(1),
                              NoSource, "Bracket", "A", 2, NoneT)

\* the state the result gives match id, NoneT when the match is not returned
StateIn(st, id) ==
  IF id \in IdsOf(st.sets)
  THEN st.sets[CHOOSE k \in 1..Len(st.sets) : st.sets[k].id = id].state
  ELSE NoneT

\* C16: in the two-match scenario get_current_state at current_time = T0 + 300
\* returns match 1 InProgress and not match 2; at current_time = T0 + 700, and
\* after jump_to_time(T0 + 700), it returns match 2 Waiting and not match 1.
C16_TwoMatchScenario ==
  (Scenario16 /\ lastOp = "get_current_state") =>
    /\ current_time = T0 + 300 =>
         /\ StateIn(result, 1) = IN_PROGRESS
         /\ StateIn(result, 2) = NoneT
    /\ (current_time = T0 + 700 \/ lastJump = <<"jump_to_time", T0 + 700>>) =>
         /\ StateIn(result, 1) = NoneT
         /\ StateIn(result, 2) = WAITING

\* the scenario queried at current_time = T0 + 700
C16_Witness ==
  /\ Scenario16
  /\ lastOp = "get_current_state"
  /\ current_time = T0 + 700
  /\ StateIn(result, 2) = WAITING

(***************************************************************************)
(* C17 - pools without a match in progress                                 *)
(***************************************************************************)
\* C17: at current_time > start_time + 7200, of a pool with n available
\* matches none of which is InProgress get_current_state returns exactly
\* min(n, clamp(n // 3, 2, 4)) matches; for n = 9 exactly 3.
C17_QuietPoolCount ==
  (lastOp = "get_current_state" /\ tournament_data.loaded
   /\ current_time > start_time + 7200) =>
    \A k \in 1..Len(AvailableNow) :
      LET pool == PoolKey(AvailableNow[k])
          all == {WAITING, READY, IN_PROGRESS, COMPLETED}
          n == CountIn(AvailableNow, pool, all)
          shown == CountIn(result.sets, pool, all)
      IN CountIn(AvailableNow, pool, {IN_PROGRESS}) = 0 =>
           /\ shown = Min2(n, Min2(4, Max2(2, n \div 3)))
           /\ n = 9 => shown = 3

\* a pool of 9 available matches, none in progress, queried past the opening
\* window: 3 are returned
C17_Witness ==
  /\ lastOp = "get_current_state"
  /\ current_time > start_time + 7200
  /\ Len(AvailableNow) = 9
  /\ CountIn(AvailableNow, "A", {IN_PROGRESS}) = 0
  /\ Len(result.sets) = 3

(***************************************************************************)
(* C18 - the simulation context reaches the display                        *)
(***************************************************************************)
\* C18: every match get_current_state returns carries a simulation context
\* with the simulator's current_time and start_time, and the display row
\* built from it (MatchRow) has that context as its simulation_context, so
\* that time_since_ready computes against simulated time.
C18_ContextReachesRow ==
  (lastOp = "get_current_state" /\ tournament_data.loaded) =>
    \A k \in 1..Len(result.sets) :
      /\ result.sets[k].ctx_current_time = current_time
      /\ result.sets[k].ctx_start_time = start_time
      /\ MatchRow(result.sets[k]).simulation_context # NoneT
      /\ UsesSimulatedTime(MatchRow(result.sets[k]))

(***************************************************************************)
(* C19 - demo mode                                                         *)
(***************************************************************************)
\* the command line asks for demo mode: --demo, or (without --find-active)
\* no token, or neither an event nor a slug
DemoExpected ==
  \/ app.demo
  \/ /\ ~app.find_active
     /\ \/ app.token \in {NoneStr, ""}
        \/ (app.event \in {NoneStr, ""} /\ app.slug \in {NoneStr, ""})

\* C19: main() constructs TournamentDisplay with api_token, event_id and
\* event_slug all None exactly when demo mode is asked for; otherwise
\* (without --find-active) it passes the given values unchanged; and it never
\* passes an empty string.
C19_DemoMode ==
  (app.stage = "display" /\ app \notin DirectAPIs) =>
    /\ DemoExpected <=>
         (app.api_token = NoneStr /\ app.event_id = NoneStr
          /\ app.event_slug = NoneStr)
    /\ (~DemoExpected /\ ~app.find_active) =>
         (app.api_token = app.token /\ app.event_id = app.event
          /\ app.event_slug = app.slug)
    /\ app.api_token # "" /\ app.event_id # "" /\ app.event_slug # ""

(***************************************************************************)
(* C20 - mock data only without a token                                    *)
(***************************************************************************)
\* C20: TournamentAPI.fetch_sets returns the mock tournament data only when no
\* API token is configured; with a token it returns the parsed response or
\* raises, and never the mock data.
C20_MockOnlyWithoutToken ==
  (app.stage = "fetched" /\ app.fetched = "mock")
    => app.api_token \in {NoneStr, ""}

(***************************************************************************)
(* C21 - a failed fetch keeps the display's data                           *)
(***************************************************************************)
\* C21: when api.fetch_sets raises during fetch_tournament_data, the display's
\* matches, total_sets, ready_sets, in_progress_sets, event_name and title
\* are unchanged and last_update is an error stamp; the app keeps running and
\* a later refresh is accepted (the display is still mounted and running).
C21_ErrorKeepsData ==
  [][(app.ui.mounted /\ lastOp' = "fetch_sets" /\ result' = RaisedValueError) =>
       /\ app'.ui.matches = app.ui.matches
       /\ app'.ui.total_sets = app.ui.total_sets
       /\ app'.ui.ready_sets = app.ui.ready_sets
       /\ app'.ui.in_progress_sets = app.ui.in_progress_sets
       /\ app'.ui.event_name = app.ui.event_name
       /\ app'.ui.title = app.ui.title
       /\ app'.ui.last_update.stamp = "error"
       /\ app'.ui.mounted
       /\ app'.ui.running = app.ui.running
    ]_vars

\* the display shows the matches of an earlier fetch and the error stamp of
\* the fetch that has just raised
C21_Witness ==
  /\ lastOp = "fetch_sets"
  /\ result = RaisedValueError
  /\ app.ui.outcome = "error"
  /\ app.ui.matches # <<>>
  /\ app.ui.total_sets > 0
  /\ app.ui.last_update.stamp = "error"
  /\ app.ui.running

(***************************************************************************)
(* C22 - the timeline                                                      *)
(***************************************************************************)
\* the number of timeline events of a type that belong to match id
EventCount(id, type) ==
  Cardinality({k \in 1..Len(timeline_events) :
     timeline_events[k].match_id = id /\ timeline_events[k].type = type})

\* the position of match id in the snapshot
PositionOf(id) == CHOOSE i \in 1..Len(Matches) : Matches[i].id = id

C23_LeadIn ==
  timeline_events # <<>> =>
    /\ \E t \in EventTimes :
         /\ \A u \in EventTimes : t <= u
         /\ start_time = t - 3600
    /\ EndTime(timeline_events) - start_time >= 3600
    /\ lastOp = "get_simulation_progress" =>
         /\ progress.den = EndTime(timeline_events) - start_time
         /\ progress.den >= 3600

\* the progress read on a timeline of a single event: the divisor is the
\* lead-in
C23_Witness ==
  /\ lastOp = "get_simulation_progress"
  /\ Len(timeline_events) = 1
  /\ progress.den = 3600
  /\ progress.num \in 0..3600

(***************************************************************************)
(* C24 - the state of an available match                                   *)
(***************************************************************************)
\* the timeline events of match id at or before time t
EventsUpTo(id, t) ==
  {k \in 1..Len(timeline_events) :
     timeline_events[k].match_id = id /\ timeline_events[k].timestamp <= t}

\* what C24 says of one returned match
StateAsDerived(v) ==
  LET rel == EventsUpTo(v.id, current_time)
  IN /\ v.state # COMPLETED
     /\ rel = {} => v.state = WAITING
     /\ rel # {} =>
          \E k \in rel :
            /\ \A j \in rel :
                 timeline_events[j].timestamp <= timeline_events[k].timestamp
            /\ timeline_events[k].type = "match_started"
            /\ v.state =
                 IF current_time - timeline_events[k].timestamp < 600
                 THEN IN_PROGRESS ELSE READY

\* C24: every match returned as available at current_time t is Waiting if it
\* has no timeline event at or before t; otherwise its latest such event is a
\* started event at a time s and the match is InProgress if t - s < 600 and
\* Ready if t - s >= 600; no returned match is Completed.
C24_StateOfAvailable ==
  tournament_data.loaded =>
    /\ \A k \in 1..Len(AvailableNow) : StateAsDerived(AvailableNow[k])
    /\ JustQueried =>
         \A k \in 1..Len(result.sets) : StateAsDerived(result.sets[k])

\* a query answered exactly 600 seconds after a match was started: the match
\* is returned Ready
C24_Witness ==
  /\ lastOp = "get_current_state"
  /\ \E k \in 1..Len(result.sets) :
       /\ result.sets[k].state = READY
       /\ result.sets[k].startedAt # NoneT
       /\ current_time - result.sets[k].startedAt = 600

(***************************************************************************)
(* C25 - the phase gate                                                    *)
(***************************************************************************)
\* the matches of phase "Bracket", and those of them completed at current_time
BracketIdx == {j \in 1..Len(Matches) : Matches[j].phase_name = "Bracket"}
BracketDoneIdx ==
  {j \in BracketIdx : HasCompletedEvent(Matches[j].id, current_time)}

\* match m is returned as available now (and by the query just answered)
ShownNow(m) ==
  \/ m.id \in IdsOf(AvailableNow)
  \/ (JustQueried /\ m.id \in IdsOf(result.sets))

\* every slot source of type "set" of m names a completed match
SourcesCompleted(m) ==
  /\ (m.src1.type = "set" /\ Truthy(m.src1.typeId))
       => HasCompletedEvent(m.src1.typeId, current_time)
  /\ (m.src2.type = "set" /\ Truthy(m.src2.typeId))
       => HasCompletedEvent(m.src2.typeId, current_time)

\* C25: a match of phase "Top 8" (resp. "Top 24") is available at
\* current_time only if the matches of phase "Bracket" completed by then are
\* at least 75% (resp. 50%) of all matches of phase "Bracket" in the
\* snapshot, and only if its slot sources are completed as well.
C25_PhaseGate ==
  tournament_data.loaded =>
    \A i \in 1..Len(Matches) :
      ShownNow(Matches[i]) =>
        /\ Matches[i].phase_name = "Top 8" =>
             4 * Cardinality(BracketDoneIdx) >= 3 * Cardinality(BracketIdx)
        /\ Matches[i].phase_name = "Top 24" =>
             2 * Cardinality(BracketDoneIdx) >= Cardinality(BracketIdx)
        /\ Matches[i].phase_name \in {"Top 8", "Top 24"} =>
             SourcesCompleted(Matches[i])

\* a query answered when half of the Bracket matches are completed: the
\* Top 24 match is returned, the Top 8 match, whose source is completed, is not
C25_Witness ==
  /\ lastOp = "get_current_state"
  /\ 2 * Cardinality(BracketDoneIdx) >= Cardinality(BracketIdx)
  /\ 4 * Cardinality(BracketDoneIdx) < 3 * Cardinality(BracketIdx)
  /\ \E i, j \in 1..Len(Matches) :
       /\ Matches[i].phase_name = "Top 8"
       /\ Matches[i].src2.type = "set"
       /\ SourcesCompleted(Matches[i])
       /\ Matches[i].id \notin IdsOf(result.sets)
       /\ Matches[j].phase_name = "Top 24"
       /\ Matches[j].id \in IdsOf(result.sets)

(***************************************************************************)
(* C26 - matches without dependency references                             *)
(***************************************************************************)
\* match m has non-TBD players and no slot source of type "set", the clock is
\* at or after start_time and m has no completed event yet
FreeAndOpen(m) ==
  /\ m.tag1 # "TBD" /\ m.tag2 # "TBD"
  /\ m.src1.type # "set" /\ m.src2.type # "set"
  /\ current_time >= start_time
  /\ ~HasCompletedEvent(m.id, current_time)

\* the share of completed Bracket matches that the phase of m asks for is
\* reached (nothing is asked of a phase other than "Top 8" and "Top 24")
PhaseReached(m) ==
  /\ m.phase_name = "Top 8" =>
       4 * Cardinality(BracketDoneIdx) >= 3 * Cardinality(BracketIdx)
  /\ m.phase_name = "Top 24" =>
       2 * Cardinality(BracketDoneIdx) >= Cardinality(BracketIdx)

\* C26: a match with non-TBD players and no "set"-type source on either slot
\* is returned by _get_available_matches at every current_time from
\* start_time until its own completed event.
C26_FreeMatchAvailable ==
  tournament_data.loaded =>
    \A i \in 1..Len(Matches) :
      FreeAndOpen(Matches[i]) => Matches[i].id \in IdsOf(AvailableNow)

\* C26 (amended): a match with non-TBD players and no "set"-type source on
\* either slot is returned by _get_available_matches at every current_time
\* from start_time until its own completed event, provided its phase is
\* neither "Top 8" nor "Top 24" or the share of completed Bracket matches
\* that phase asks for is reached.
C26_FreeMatchAvailableAmended ==
  tournament_data.loaded =>
    \A i \in 1..Len(Matches) :
      (FreeAndOpen(Matches[i]) /\ PhaseReached(Matches[i]))
        => Matches[i].id \in IdsOf(AvailableNow)

\* a query answered at start_time: a Bracket match without sources, not yet
\* started, is returned; a Top 24 match without sources is not
C26_Witness ==
  /\ lastOp = "get_current_state"
  /\ current_time = start_time
  /\ \E i, j \in 1..Len(Matches) :
       /\ FreeAndOpen(Matches[i])
       /\ Matches[i].phase_name = "Bracket"
       /\ Matches[i].started_at > current_time
       /\ Matches[i].id \in IdsOf(result.sets)
       /\ FreeAndOpen(Matches[j])
       /\ Matches[j].phase_name = "Top 24"
       /\ Matches[j].id \notin IdsOf(result.sets)

(***************************************************************************)
(* C27 - matches in progress are always shown                              *)
(***************************************************************************)
\* C27: every available match whose derived state is InProgress is in the
\* sets get_current_state returns, at every current_time and whatever the
\* size of its pool and the pool's concurrency cap.
C27_InProgressAlwaysShown ==
  (JustQueried /\ tournament_data.loaded) =>
    \A k \in 1..Len(AvailableNow) :
      AvailableNow[k].state = IN_PROGRESS =>
        \E j \in 1..Len(result.sets) :
          /\ result.sets[j].id = AvailableNow[k].id
          /\ result.sets[j].state = IN_PROGRESS

\* a query answered past the opening window while one pool has more matches
\* in progress than its cap: all of them are returned
C27_Witness ==
  /\ lastOp = "get_current_state"
  /\ current_time > start_time + OpeningWindow
  /\ \E k \in 1..Len(AvailableNow) :
       LET pool == PoolKey(AvailableNow[k])
           n == CountIn(AvailableNow, pool, {WAITING, READY, IN_PROGRESS})
       IN /\ CountIn(AvailableNow, pool, {IN_PROGRESS}) > max_concurrent(n)
          /\ CountIn(result.sets, pool, {IN_PROGRESS})
               = CountIn(AvailableNow, pool, {IN_PROGRESS})

(***************************************************************************)
(* C28 - the opening window                                                *)
(***************************************************************************)
\* C28: whenever current_time <= start_time + 7200 the constraint filter
\* removes nothing: the matches get_current_state returns are the matches
\* _get_available_matches returns.
C28_OpeningWindowUnfiltered ==
  (JustQueried /\ tournament_data.loaded
   /\ current_time <= start_time + 7200) =>
    /\ IdsOf(result.sets) = IdsOf(AvailableNow)
    /\ Len(result.sets) = Len(AvailableNow)

\* a query answered exactly at start_time + 7200 while a pool has more
\* waiting or ready matches than its cap: all are returned
C28_Witness ==
  /\ lastOp = "get_current_state"
  /\ current_time = start_time + 7200
  /\ \E k \in 1..Len(AvailableNow) :
       LET pool == PoolKey(AvailableNow[k])
           n == CountIn(AvailableNow, pool, {WAITING, READY, IN_PROGRESS})
       IN /\ CountIn(AvailableNow, pool, {WAITING, READY}) > max_concurrent(n)
          /\ CountIn(result.sets, pool, {WAITING, READY})
               = CountIn(AvailableNow, pool, {WAITING, READY})

(***************************************************************************)
(* C29 - the cap fills in state-priority order                             *)
(***************************************************************************)
\* the available matches the query just answered does not show
HiddenNow ==
  {k \in 1..Len(AvailableNow) : AvailableNow[k].id \notin IdsOf(result.sets)}

PastOpeningQuery ==
  /\ JustQueried
  /\ tournament_data.loaded
  /\ current_time > start_time + OpeningWindow

\* C29: past the opening window no Waiting match of a pool is visible while a
\* Ready match of the same pool is hidden by the cap.
C29_ReadyBeforeWaiting ==
  PastOpeningQuery =>
    \A h \in HiddenNow : \A j \in 1..Len(result.sets) :
      ~ /\ AvailableNow[h].state = READY
        /\ result.sets[j].state = WAITING
        /\ PoolKey(result.sets[j]) = PoolKey(AvailableNow[h])

\* C29 (amended): past the opening window no Waiting match of a pool is
\* visible while a Ready match of the same pool whose player tags are both
\* non-empty is hidden by the cap.
C29_ReadyBeforeWaitingAmended ==
  PastOpeningQuery =>
    \A h \in HiddenNow : \A j \in 1..Len(result.sets) :
      ~ /\ AvailableNow[h].state = READY
        /\ AvailableNow[h].tag1 # "" /\ AvailableNow[h].tag2 # ""
        /\ result.sets[j].state = WAITING
        /\ PoolKey(result.sets[j]) = PoolKey(AvailableNow[h])

\* a query answered past the opening window: of a pool with one Ready match
\* and several Waiting ones the Ready match and one Waiting match are
\* returned, another Waiting match is hidden
C29_Witness ==
  /\ lastOp = "get_current_state"
  /\ current_time > start_time + OpeningWindow
  /\ CountIn(AvailableNow, "A", {READY}) = 1
  /\ CountIn(result.sets, "A", {READY}) = 1
  /\ CountIn(result.sets, "A", {WAITING}) = 1
  /\ \E h \in HiddenNow :
       AvailableNow[h].state = WAITING /\ PoolKey(AvailableNow[h]) = "A"

(***************************************************************************)
(* C30 - the cap keeps the most recently updated matches                   *)
(***************************************************************************)
\* C30: past the opening window, among a pool's matches of the same state
\* (Ready, or Waiting) no match hidden by the cap has a larger updatedAt than
\* a visible match of the same pool and state.
C30_MostRecentKept ==
  PastOpeningQuery =>
    \A h \in HiddenNow : \A j \in 1..Len(result.sets) :
      (/\ AvailableNow[h].state \in {READY, WAITING}
       /\ result.sets[j].state = AvailableNow[h].state
       /\ PoolKey(result.sets[j]) = PoolKey(AvailableNow[h]))
      => AvailableNow[h].updatedAt <= result.sets[j].updatedAt

(***************************************************************************)
(* C31 - polling advances the clock to the end of the timeline             *)
(***************************************************************************)
\* a simulator with a snapshot and a non-empty timeline
Playable == tournament_data.loaded /\ timeline_events # <<>>

Clamp01(p) ==
  IF p[1] <= 0 THEN <<0, 1>> ELSE IF p[1] >= p[2] THEN <<1, 1>> ELSE p

\* start_time + floor((end_time - start_time) * p), p clamped
FloorTarget(p) ==
  LET q == Clamp01(p)
      span == EndTime(timeline_events) - start_time
  IN start_time + ((span * q[1]) \div q[2])

\* p <= q as fractions with positive denominators
FracLeq(p, q) == p[1] * q[2] <= q[1] * p[2]

C33_DriverOwnsClock ==
  [][(lastOp' \in {"get_current_state", "get_simulation_progress", "fetch_sets"})
       => current_time' = current_time]_vars

\* a poll during the loop's sleep has moved the clock: it is more than one
\* quantum past the time the last tick was evaluated at
C33_PolledWhileAsleep ==
  /\ pc = "sleep"
  /\ lastOp = "fetch_sets"
  /\ speed_multiplier = <<1800, 1>>
  /\ tick_state.sets # <<>>
  /\ current_time > tick_state.sets[1].ctx_current_time + 1800

(***************************************************************************)
(* C34 - a pool whose in-progress matches use up the cap                   *)
(***************************************************************************)
\* C34: past the opening window, when the InProgress matches of a pool are
\* max_concurrent = clamp(n // 3, 2, 4) or more, get_current_state returns no
\* Ready and no Waiting match of that pool.
C34_FullPoolShowsNoOther ==
  PastOpeningQuery =>
    \A k \in 1..Len(AvailableNow) :
      LET pool == PoolKey(AvailableNow[k])
          n == CountIn(AvailableNow, pool, {WAITING, READY, IN_PROGRESS})
      IN CountIn(AvailableNow, pool, {IN_PROGRESS}) >= max_concurrent(n)
           => CountIn(result.sets, pool, {WAITING, READY}) = 0

(***************************************************************************)
(* C35 - the loop's advance                                                *)
(***************************************************************************)
\* C35: for every positive speed_multiplier current_time strictly increases
\* on every tick of a start_simulation run (the advance that precedes the
\* loop's sleep), so that a run that is not stopped passes the last event's
\* timestamp and terminates.
C35_TickAdvances ==
  [][(pc \in {"callback", "sleep"} /\ pc' = "sleep"
      /\ lastOp' \in {"tick", "callback_returned"}
      /\ speed_multiplier[1] > 0)
       => current_time' > current_time]_vars

\* a run at speed 0.5 that has ticked twice at the same current_time
C35_Stalled ==
  /\ pc = "sleep"
  /\ lastOp = "tick"
  /\ speed_multiplier = <<1, 2>>
  /\ is_running
  /\ tick_state.sets # <<>> /\ prev_tick.sets # <<>>
  /\ tick_state.sets[1].ctx_current_time = current_time
  /\ prev_tick.sets[1].ctx_current_time = current_time

(***************************************************************************)
(* C36 - the last tick of a run                                            *)
(***************************************************************************)
\* the loop has left through its condition, nobody having stopped it
RanToEnd == lastOp = "loop_exit" /\ ~stop_pending

\* the time the run's last tick was evaluated at: the advance that followed
\* it is the last change of current_time
LastTickTime == current_time - AdvanceSeconds(speed_multiplier)

\* C36: a start_simulation run that is not stopped evaluates the state at the
\* last event's timestamp before it ends, so with a callback the state last
\* delivered is the final tournament state.
C36_FinalStateEvaluated ==
  RanToEnd =>
    /\ LastTickTime = EndTime(timeline_events)
    /\ callback =>
         StripContext(last_state)
           = StripContext(get_current_state(tournament_data, timeline_events,
                                            EndTime(timeline_events), start_time))

\* a run at speed 1800 over a timeline of 4200 seconds has ended: its last
\* tick was 600 seconds before the last event, and the state delivered last
\* still shows a match the final state does not
C36_EndSkipped ==
  /\ RanToEnd
  /\ callback
  /\ speed_multiplier = <<1800, 1>>
  /\ LastTickTime = EndTime(timeline_events) - 600
  /\ Len(last_state.sets)
       > Len(get_current_state(tournament_data, timeline_events,
                               EndTime(timeline_events), start_time).sets)

(***************************************************************************)
(* C37 - is_running after a run                                            *)
(***************************************************************************)
\* C37: is_running is True only while a start_simulation loop is executing:
\* once start_simulation has returned, or an exception raised from the
\* callback has ended it, is_running is False.
C37_RunningOnlyInLoop ==
  is_running => pc \in {"callback", "sleep"}

\* an exception of the callback has ended a run that nobody stopped
C37_AbortedByCallback ==
  /\ lastOp = "callback_raised"
  /\ pc = "done"
  /\ ~stop_pending
  /\ cb_fired

(***************************************************************************)
(* C38 - startedAt of a returned match                                     *)
(***************************************************************************)
\* the timestamps of the started events of match id
StartedStamps(id) ==
  {timeline_events[k].timestamp : k \in
     {j \in 1..Len(timeline_events) :
        /\ timeline_events[j].match_id = id
        /\ timeline_events[j].type = "match_started"}}

\* what C38 says of one returned match
StartedAtAsDerived(v) ==
  /\ v.startedAt # NoneT <=> v.state \in {IN_PROGRESS, READY}
  /\ v.state = WAITING => v.startedAt = NoneT
  /\ v.startedAt # NoneT => StartedStamps(v.id) = {v.startedAt}

\* C38: for every match returned by get_current_state, startedAt is non-null
\* exactly when the derived state is InProgress or Ready, and then it is the
\* timestamp of the match's started event; every Waiting match has startedAt
\* None.
C38_StartedAtFollowsState ==
  tournament_data.loaded =>
    /\ \A k \in 1..Len(AvailableNow) : StartedAtAsDerived(AvailableNow[k])
    /\ JustQueried =>
         \A k \in 1..Len(result.sets) : StartedAtAsDerived(result.sets[k])

\* a query that returns a Ready match with its start time next to a Waiting
\* match, without one, whose record holds a start time that is still ahead
C38_Witness ==
  /\ lastOp = "get_current_state"
  /\ \E k, j \in 1..Len(result.sets) :
       /\ result.sets[k].state = READY
       /\ result.sets[k].startedAt \in StartedStamps(result.sets[k].id)
       /\ result.sets[j].state = WAITING
       /\ result.sets[j].startedAt = NoneT
       /\ \E i \in 1..Len(Matches) :
            /\ Matches[i].id = result.sets[j].id
            /\ Matches[i].started_at # NoneT
            /\ Matches[i].started_at > current_time

(***************************************************************************)
(* C39 - the order of a match's observed states                            *)
(***************************************************************************)
\* the place of a derived state in the order Waiting, InProgress, Ready
StateRank(state) ==
  IF state = WAITING THEN 0
  ELSE IF state = IN_PROGRESS THEN 1
  ELSE IF state = READY THEN 2
  ELSE 3

\* a state returned earlier is held, and the state just returned was computed
\* at a current_time that is not before the earlier one
ObservedAgain ==
  /\ JustQueried
  /\ remembered.loaded
  /\ remembered.at <= current_time

\* C39: of two observations of a match, the second at a current_time not
\* before the first's, the second's state is not earlier in the order Waiting,
\* InProgress, Ready than the first's: a match observed Ready is never later
\* observed InProgress or Waiting, and a match observed InProgress is never
\* later observed Waiting.
C39_StatesInOrder ==
  ObservedAgain =>
    \A k \in 1..Len(remembered.state.sets) : \A j \in 1..Len(result.sets) :
      remembered.state.sets[k].id = result.sets[j].id =>
        /\ StateRank(remembered.state.sets[k].state)
             <= StateRank(result.sets[j].state)
        /\ result.sets[j].state \in {WAITING, IN_PROGRESS, READY}

\* a match observed InProgress and, at a later current_time, Ready
C39_Witness ==
  /\ ObservedAgain
  /\ remembered.at < current_time
  /\ \E k \in 1..Len(remembered.state.sets) : \E j \in 1..Len(result.sets) :
       /\ remembered.state.sets[k].id = result.sets[j].id
       /\ remembered.state.sets[k].state = IN_PROGRESS
       /\ result.sets[j].state = READY

(***************************************************************************)
(* C40 - the first tick of a run                                           *)
(***************************************************************************)
\* the loop is suspended in or after its first iteration
InFirstTick == pc \in {"callback", "sleep"} /\ prev_tick = NoState

====
